---- MODULE Spec2Model ----
(***************************************************************************)
(* State-machine model of the wager-backed tic-tac-toe contract            *)
(* (src/src/lib.rs).  The Contract's collections are the variables, every  *)
(* public method is one action, and a panic aborts the whole call: the     *)
(* contract state of a rejected call is the state before the call.         *)
(*                                                                         *)
(* lib.rs is the only file of the crate at hand.  The helpers it calls     *)
(* from board.rs, game.rs, internal.rs and stats.rs are modelled from the  *)
(* written specification and from what lib.rs's callers and tests show of  *)
(* them; each such definition says so.                                     *)
(*                                                                         *)
(* Time is the block timestamp in abstract units; balances are in abstract *)
(* units of the wager token.                                               *)
(***************************************************************************)
EXTENDS Integers, Sequences, FiniteSets, TLC

(***************************************************************************)
(* Bounds of the exploration.                                              *)
(***************************************************************************)
\* the block timestamp ranges over 1..MaxTime
MaxTime == 4
\* start_game is explored while next_game_id < MaxGames
MaxGames == 1
\* a mover picks among the first MoveChoices empty cells by CellRank
\* (and any occupied or out-of-grid cell)
MoveChoices == 2

\* at most this many refunds wait for their acknowledgment at once
MaxRefunds == 2

(***************************************************************************)
(* Program constants and the deployment's configuration.                   *)
(***************************************************************************)
\* config.rs: side of the square board; the tests play rows/cols 0..4 of a
\* 5x5 board and win with 5 in a row: the model plays the 3x3 analogue.
BOARD_SIZE == 3
\* board.rs: length of a winning run (the full side, as in the tests)
WIN_LENGTH == BOARD_SIZE
\* config.rs: MAX_NUM_TURNS, the number of cells of the board
MAX_NUM_TURNS == BOARD_SIZE * BOARD_SIZE
\* config.rs: basis points denominator
BASIS_P == 10000
\* Contract::new default: MAX_FEES, 10% in basis points
service_fee_percentage == 1000
\* Contract::new default: 95% of the fee goes to referrers
referrer_ratio == 9500
\* Contract::new: config.max_game_duration_sec, here MAX_NUM_TURNS time units
max_game_duration == 9
\* a per-turn bound rounded up from the quotient instead of down
max_turn_duration_RoundedUp == (max_game_duration \div MAX_NUM_TURNS) + 1

\* Contract::new: max_turn_duration: max_game_duration / MAX_NUM_TURNS
max_turn_duration == max_game_duration \div MAX_NUM_TURNS
\* Contract::new: config.max_stored_games
max_stored_games == 1
\* config.rs: MIN_DEPOSIT_NEAR, the least NEAR stake
MIN_DEPOSIT_NEAR == 5
\* config.rs: MAX_TIME_TO_BE_AVAILABLE, the grace window of a waiting player
MAX_TIME_TO_BE_AVAILABLE == 1

\* Balance is u128: the largest balance, here of 4 bits
MAX_BALANCE == 15

NEAR == "near"
\* the whitelisted fungible token of the tests
CHEDDAR == "cheddar"
\* Contract.whitelisted_tokens: token -> least deposit (set by the owner
\* before play)
whitelisted_tokens == [t \in {CHEDDAR} |-> MIN_DEPOSIT_NEAR]

\* the accounts that register and play
Players == {"a1", "a2"}
\* every caller: the players and an account that never registers
Accounts == Players \cup {"a3"}
\* Option<AccountId>::None
NoAcc == "none"
\* deposits attached to make_available: one below the minimum, the minimum
Deposits == {MIN_DEPOSIT_NEAR - 1, MIN_DEPOSIT_NEAR}
\* referrer_id given to make_available
Referrers == {NoAcc}
\* opponent_id given to make_available
Opponents == {NoAcc}

\* the game ids a caller names: those start_game can give out, and one more
GameIds == 0..MaxGames
Idx == 0..(BOARD_SIZE - 1)
Cells == Idx \X Idx
Empty == "-"

VARIABLES
  now,                \* env::block_timestamp()
  games,              \* Contract.games: GameId -> Game
  available_players,  \* Contract.available_players: AccountId -> GameConfig
  stats,              \* Contract.stats: AccountId -> Stats
  next_game_id,       \* Contract.next_game_id
  stored_games,       \* Contract.stored_games, in insertion order
  affiliates,         \* referrer recorded for an account (first write wins)
  payouts,            \* log of the settlements made, one record per call of
                      \* internal_distribute_reward
  stored_log,         \* log of the game ids put into stored_games
  moved_by,           \* GameId -> the account of the game's last accepted move
  refunds,            \* refunds of make_unavailable not yet acknowledged
  last                \* the last call: method, arguments, outcome and the
                      \* transfers it requested

cvars == <<games, available_players, stats, next_game_id, stored_games,
           affiliates, payouts, stored_log>>
vars == <<now, games, available_players, stats, next_game_id, stored_games,
          affiliates, payouts, stored_log, moved_by, refunds, last>>

(***************************************************************************)
(* Maps (UnorderedMap): functions whose domain is the set of present keys. *)
(***************************************************************************)
EmptyMap == [k \in {} |-> 0]
Put(f, k, v) == [x \in (DOMAIN f) \cup {k} |-> IF x = k THEN v ELSE f[x]]
Del(f, k) == [x \in (DOMAIN f) \ {k} |-> f[x]]

\* the contract as one value, as a method sees and leaves it; out collects
\* the transfers (Promises) the running call has requested
Ctr == [games |-> games, available_players |-> available_players,
        stats |-> stats, next_game_id |-> next_game_id,
        stored_games |-> stored_games, affiliates |-> affiliates,
        payouts |-> payouts, stored_log |-> stored_log, out |-> <<>>]

(***************************************************************************)
(* Board (board.rs).                                                       *)
(***************************************************************************)
other(piece) == IF piece = "X" THEN "O" ELSE "X"

EmptyTiles == [c \in Cells |-> Empty]

InGrid(row, col) == row \in Idx /\ col \in Idx

\* Board::check_move
check_move(board, row, col) ==
  IF board.winner # "None" THEN "GameAlreadyOver"
  ELSE IF ~InGrid(row, col) THEN "InvalidPosition"
  ELSE IF board.tiles[<<row, col>>] # Empty THEN "TileFilled"
  ELSE "Ok"

\* number of consecutive cells holding piece from (row, col) on, stepping
\* by (dr, dc)
RECURSIVE RunFrom(_, _, _, _, _, _)
RunFrom(tiles, piece, row, col, dr, dc) ==
  IF InGrid(row, col) /\ tiles[<<row, col>>] = piece
  THEN 1 + RunFrom(tiles, piece, row + dr, col + dc, dr, dc)
  ELSE 0

\* the contiguous run of the piece at (row, col) through that cell on one axis
RunThrough(tiles, row, col, dr, dc) ==
  LET piece == tiles[<<row, col>>]
  IN 1 + RunFrom(tiles, piece, row + dr, col + dc, dr, dc)
       + RunFrom(tiles, piece, row - dr, col - dc, 0 - dr, 0 - dc)

Axes == {<<0, 1>>, <<1, 0>>, <<1, 1>>, <<1, -1>>}

\* Board::update_winner, from the just-played cell
update_winner(board, row, col) ==
  IF \E a \in Axes : RunThrough(board.tiles, row, col, a[1], a[2]) >= WIN_LENGTH
  THEN [board EXCEPT !.winner = board.tiles[<<row, col>>]]
  ELSE IF \A c \in Cells : board.tiles[c] # Empty
       THEN [board EXCEPT !.winner = "Tie"]
       ELSE board

(***************************************************************************)
(* Game (game.rs).                                                         *)
(***************************************************************************)
\* Game::create_game: the first account is slot 0 and moves first
create_game(first, second, reward, ts) ==
  [players |-> <<[account_id |-> first, piece |-> "O"],
                 [account_id |-> second, piece |-> "X"]>>,
   board |-> [tiles |-> EmptyTiles, winner |-> "None"],
   current_piece |-> "O",
   current_player_index |-> 0,
   game_state |-> "NotStarted",
   reward |-> reward,
   initiated_at |-> ts,
   last_turn_timestamp |-> 0,
   current_duration |-> 0,
   total_turns |-> 0]

change_state(game, state) == [game EXCEPT !.game_state = state]

current_player_account_id(game) ==
  game.players[game.current_player_index + 1].account_id

next_player_account_id(game) ==
  game.players[(1 - game.current_player_index) + 1].account_id

get_player_acc_by_piece(game, piece) ==
  IF game.players[1].piece = piece THEN game.players[1].account_id
  ELSE game.players[2].account_id

get_player_accounts(game) ==
  <<game.players[1].account_id, game.players[2].account_id>>

contains_player_account_id(game, acc) ==
  acc = game.players[1].account_id \/ acc = game.players[2].account_id

(***************************************************************************)
(* Stats (stats.rs) and the internal helpers (internal.rs).                *)
(***************************************************************************)
NewStats == [games_played |-> 0, victories_num |-> 0, penalties_num |-> 0,
             total_reward |-> EmptyMap, total_affiliate_reward |-> EmptyMap]

StatsOf(c, acc) == IF acc \in DOMAIN c.stats THEN c.stats[acc] ELSE NewStats

AddTo(m, k, n) == Put(m, k, (IF k \in DOMAIN m THEN m[k] ELSE 0) + n)

\* Contract::internal_update_stats
internal_update_stats(c, token_id, acc, action, balance) ==
  LET s == StatsOf(c, acc)
      t == CASE action = "AddPlayedGame" ->
                  [s EXCEPT !.games_played = @ + 1]
             [] action = "AddPenaltyGame" ->
                  [s EXCEPT !.penalties_num = @ + 1]
             [] action = "AddWonGame" ->
                  [s EXCEPT !.victories_num = @ + 1]
             [] action = "AddTotalReward" ->
                  [s EXCEPT !.total_reward = AddTo(@, token_id, balance)]
             [] action = "AddAffiliateReward" ->
                  [s EXCEPT !.total_affiliate_reward =
                                AddTo(@, token_id, balance)]
  IN [c EXCEPT !.stats = Put(@, acc, t)]

\* Contract::internal_add_referrer: the first referrer of an account stays
internal_add_referrer(c, acc, referrer_id) ==
  IF acc \in DOMAIN c.affiliates THEN c
  ELSE [c EXCEPT !.affiliates = Put(@, acc, referrer_id)]

\* Contract::internal_transfer: the transfer is requested, not awaited
internal_transfer(c, token_id, receiver, amount) ==
  [c EXCEPT !.out = Append(@, [token_id |-> token_id, receiver |-> receiver,
                               amount |-> amount])]

\* a game is in the games map
HasGame(c, gid) == gid \in DOMAIN c.games

\* Contract::internal_update_game
internal_update_game(c, gid, game) == [c EXCEPT !.games = Put(@, gid, game)]

\* Contract::internal_stop_game: the game leaves the active games
internal_stop_game(c, gid) == [c EXCEPT !.games = Del(@, gid)]

\* an archive that, once full, drops the view it is given and keeps the old
internal_store_game_KeepsOldest(c, gid, view) ==
  LET all == Append(c.stored_games, [view EXCEPT !.game_id = gid])
  IN [c EXCEPT !.stored_games =
                  IF Len(all) > max_stored_games
                  THEN SubSeq(all, 1, max_stored_games) ELSE all,
               !.stored_log = Append(@, gid)]

\* Contract::internal_store_game: the archive keeps the max_stored_games
\* latest views; the oldest leaves first
internal_store_game(c, gid, view) ==
  LET all == Append(c.stored_games, [view EXCEPT !.game_id = gid])
  IN [c EXCEPT !.stored_games =
                  IF Len(all) > max_stored_games THEN Tail(all) ELSE all,
               !.stored_log = Append(@, gid)]

\* Contract::internal_check_player_available: "Another game already started"
PlayerIsFree(c, acc) ==
  \A g \in DOMAIN c.games : ~contains_player_account_id(c.games[g], acc)

\* the fee with the division made before the multiplication
FeeOf_DivideFirst(balance) == (balance \div BASIS_P) * service_fee_percentage

\* fee = balance * fee_rate / DENOMINATOR
FeeOf(balance) == (balance * service_fee_percentage) \div BASIS_P

\* the share of the fee one referrer receives
ReferrerShare(fee) == ((fee * referrer_ratio) \div BASIS_P) \div 2

\* what each player receives from a tied game
TieRefund(balance) == (balance - FeeOf(balance)) \div 2

\* pays the referrer of acc, if it has one, its share of the fee
PayReferrer(c, token_id, acc, fee) ==
  IF acc \in DOMAIN c.affiliates /\ ReferrerShare(fee) > 0
  THEN internal_update_stats(
         internal_transfer(c, token_id, c.affiliates[acc], ReferrerShare(fee)),
         token_id, c.affiliates[acc], "AddAffiliateReward", ReferrerShare(fee))
  ELSE c

PaidToReferrer(c, acc, fee) ==
  IF acc \in DOMAIN c.affiliates THEN ReferrerShare(fee) ELSE 0

\* Contract::internal_distribute_reward: settles game gid to winner (NoAcc:
\* a tie) and returns the contract and the amount one player was paid
internal_distribute_reward(c, gid, winner) ==
  LET game == c.games[gid]
      token_id == game.reward.token_id
      balance == game.reward.balance
      fee == FeeOf(balance)
      p1 == game.players[1].account_id
      p2 == game.players[2].account_id
      reward == IF winner # NoAcc THEN balance - fee ELSE TieRefund(balance)
      ref_paid == PaidToReferrer(c, p1, fee) + PaidToReferrer(c, p2, fee)
      c1 == IF winner # NoAcc
            THEN internal_update_stats(
                   internal_update_stats(
                     internal_transfer(c, token_id, winner, reward),
                     token_id, winner, "AddWonGame", 0),
                   token_id, winner, "AddTotalReward", reward)
            ELSE internal_update_stats(
                   internal_update_stats(
                     internal_transfer(
                       internal_transfer(c, token_id, p1, reward),
                       token_id, p2, reward),
                     token_id, p1, "AddTotalReward", reward),
                   token_id, p2, "AddTotalReward", reward)
      c2 == PayReferrer(PayReferrer(c1, token_id, p1, fee), token_id, p2, fee)
      entry == [game_id |-> gid, winner |-> winner, balance |-> balance,
                to_players |-> IF winner # NoAcc THEN reward ELSE 2 * reward,
                to_referrers |-> ref_paid,
                fee_kept |-> fee - ref_paid]
  IN [ctr |-> [c2 EXCEPT !.payouts = Append(@, entry)], balance |-> reward]

\* GameLimitedView
GameView(result, player1, player2, token_id, balance) ==
  [game_id |-> 0, game_result |-> result, player1 |-> player1,
   player2 |-> player2,
   reward_or_tie_refund |-> [token_id |-> token_id, balance |-> balance]]

\* Contract::internal_stop_expired_game: looser forfeits game gid
internal_stop_expired_game(c, gid, looser) ==
  LET game == c.games[gid]
      pl == get_player_accounts(game)
      winner == IF looser = pl[1] THEN pl[2] ELSE pl[1]
      c1 == internal_update_stats(c, game.reward.token_id, looser,
                                  "AddPenaltyGame", 0)
      d == internal_distribute_reward(c1, gid, winner)
      c2 == internal_update_game(d.ctr, gid, change_state(game, "Finished"))
      c3 == internal_store_game(c2, gid,
              GameView(winner, pl[1], pl[2], game.reward.token_id, d.balance))
  IN internal_stop_game(c3, gid)

\* time since the last turn, since initiation when no turn was made
SinceLastTurn(game, ts) ==
  IF game.last_turn_timestamp = 0 THEN ts - game.initiated_at
  ELSE ts - game.last_turn_timestamp

\* the sweep's test of one game
GameExpired(game, ts) ==
  \/ ts - game.initiated_at > max_game_duration
  \/ SinceLastTurn(game, ts) > max_turn_duration

\* Contract::internal_ping_expired_games, game ids from gid up
RECURSIVE PingGamesFrom(_, _, _)
PingGamesFrom(c, ts, gid) ==
  IF gid >= c.next_game_id THEN c
  ELSE IF HasGame(c, gid) /\ c.games[gid].game_state = "Active"
          /\ GameExpired(c.games[gid], ts)
       THEN PingGamesFrom(
              internal_stop_expired_game(c, gid,
                current_player_account_id(c.games[gid])), ts, gid + 1)
       ELSE PingGamesFrom(c, ts, gid + 1)

internal_ping_expired_games(c, ts) == PingGamesFrom(c, ts, 0)

\* the sweep's test of one availability record
PlayerExpired(config, ts) ==
  ts - config.created_at > max_game_duration + MAX_TIME_TO_BE_AVAILABLE

\* the players pass refunding a stale record without removing it
RECURSIVE PingPlayers_NoRemoval(_, _, _)
PingPlayers_NoRemoval(c, ts, todo) ==
  IF todo = {} THEN c
  ELSE LET acc == CHOOSE a \in todo : TRUE
           config == c.available_players[acc]
       IN IF PlayerExpired(config, ts)
          THEN PingPlayers_NoRemoval(
                 internal_transfer(c, config.token_id, acc, config.deposit),
                 ts, todo \ {acc})
          ELSE PingPlayers_NoRemoval(c, ts, todo \ {acc})

\* Contract::internal_ping_expired_players over the accounts of todo
RECURSIVE PingPlayers(_, _, _)
PingPlayers(c, ts, todo) ==
  IF todo = {} THEN c
  ELSE LET acc == CHOOSE a \in todo : TRUE
           config == c.available_players[acc]
       IN IF PlayerExpired(config, ts)
          THEN PingPlayers(
                 internal_transfer(
                   [c EXCEPT !.available_players = Del(@, acc)],
                   config.token_id, acc, config.deposit),
                 ts, todo \ {acc})
          ELSE PingPlayers(c, ts, todo \ {acc})

internal_ping_expired_players(c, ts) ==
  PingPlayers(c, ts, DOMAIN c.available_players)

\* the expiry sweep at ts: the players pass, then the games pass
ExpirySweep(c, ts) ==
  internal_ping_expired_games(internal_ping_expired_players(c, ts), ts)

(***************************************************************************)
(* The read views (views.rs): what a caller is shown of the state.         *)
(***************************************************************************)
get_available_players(c) ==
  {<<acc, c.available_players[acc]>> : acc \in DOMAIN c.available_players}

get_active_games(c) == {<<gid, c.games[gid]>> : gid \in DOMAIN c.games}

get_stats(c, account_id) == StatsOf(c, account_id)

(***************************************************************************)
(* The contract's methods (lib.rs).  Each yields res, "ok" or the panic,   *)
(* and ctr, the contract the method leaves when it does not panic.         *)
(***************************************************************************)
Panic(c, why) == [res |-> why, ctr |-> c]
Done(c) == [res |-> "ok", ctr |-> c]

\* make_available without the checkpoint of lib.rs:133
make_available_NoSweep(c, ts, account_id, deposit, opponent_id, referrer_id) ==
  LET c2 == [c EXCEPT !.available_players =
               Put(@, account_id,
                   [token_id |-> NEAR, deposit |-> deposit,
                    opponent_id |-> opponent_id, referrer_id |-> referrer_id,
                    created_at |-> ts])]
  IN IF account_id \in DOMAIN c.available_players
     THEN Panic(c, "AlreadyWaiting")
     ELSE IF deposit < MIN_DEPOSIT_NEAR THEN Panic(c, "DepositTooSmall")
     ELSE IF ~PlayerIsFree(c2, account_id) THEN Panic(c, "AnotherGame")
     ELSE IF referrer_id # NoAcc
          THEN Done(internal_add_referrer(c2, account_id, referrer_id))
          ELSE Done(c2)

\* make_available with the assert of lib.rs:136 made before the checkpoint
\* of lib.rs:133
make_available_CheckFirst(c, ts, account_id, deposit, opponent_id, referrer_id) ==
  LET c1 == internal_ping_expired_players(c, ts)
      c2 == [c1 EXCEPT !.available_players =
               Put(@, account_id,
                   [token_id |-> NEAR, deposit |-> deposit,
                    opponent_id |-> opponent_id, referrer_id |-> referrer_id,
                    created_at |-> ts])]
  IN IF account_id \in DOMAIN c.available_players
     THEN Panic(c, "AlreadyWaiting")
     ELSE IF deposit < MIN_DEPOSIT_NEAR THEN Panic(c, "DepositTooSmall")
     ELSE IF ~PlayerIsFree(c2, account_id) THEN Panic(c, "AnotherGame")
     ELSE IF referrer_id # NoAcc
          THEN Done(internal_add_referrer(c2, account_id, referrer_id))
          ELSE Done(c2)

\* make_available without the assert of lib.rs:136
make_available_Overwriting(c, ts, account_id, deposit, opponent_id, referrer_id) ==
  LET c1 == internal_ping_expired_players(c, ts)
      c2 == [c1 EXCEPT !.available_players =
               Put(@, account_id,
                   [token_id |-> NEAR, deposit |-> deposit,
                    opponent_id |-> opponent_id, referrer_id |-> referrer_id,
                    created_at |-> ts])]
  IN IF deposit < MIN_DEPOSIT_NEAR THEN Panic(c, "DepositTooSmall")
     ELSE IF ~PlayerIsFree(c2, account_id) THEN Panic(c, "AnotherGame")
     ELSE IF referrer_id # NoAcc
          THEN Done(internal_add_referrer(c2, account_id, referrer_id))
          ELSE Done(c2)

\* Contract::make_available
make_available(c, ts, account_id, deposit, opponent_id, referrer_id) ==
  LET c1 == internal_ping_expired_players(c, ts)
      c2 == [c1 EXCEPT !.available_players =
               Put(@, account_id,
                   [token_id |-> NEAR, deposit |-> deposit,
                    opponent_id |-> opponent_id, referrer_id |-> referrer_id,
                    created_at |-> ts])]
  IN IF account_id \in DOMAIN c1.available_players
     THEN Panic(c, "AlreadyWaiting")
     ELSE IF deposit < MIN_DEPOSIT_NEAR THEN Panic(c, "DepositTooSmall")
     ELSE IF ~PlayerIsFree(c2, account_id) THEN Panic(c, "AnotherGame")
     ELSE IF referrer_id # NoAcc
          THEN Done(internal_add_referrer(c2, account_id, referrer_id))
          ELSE Done(c2)

\* Contract::ft_on_transfer (token_receiver.rs): registration with a
\* whitelisted token sent by token_id's contract for sender_id; as
\* make_available, with the token's own least deposit
ft_on_transfer(c, ts, token_id, sender_id, amount, opponent_id, referrer_id) ==
  LET c1 == internal_ping_expired_players(c, ts)
      c2 == [c1 EXCEPT !.available_players =
               Put(@, sender_id,
                   [token_id |-> token_id, deposit |-> amount,
                    opponent_id |-> opponent_id, referrer_id |-> referrer_id,
                    created_at |-> ts])]
  IN IF token_id \notin DOMAIN whitelisted_tokens
     THEN Panic(c, "NotWhitelisted")
     ELSE IF sender_id \in DOMAIN c1.available_players
          THEN Panic(c, "AlreadyWaiting")
     ELSE IF amount < whitelisted_tokens[token_id]
          THEN Panic(c, "DepositTooSmall")
     ELSE IF ~PlayerIsFree(c2, sender_id) THEN Panic(c, "AnotherGame")
     ELSE IF referrer_id # NoAcc
          THEN Done(internal_add_referrer(c2, sender_id, referrer_id))
          ELSE Done(c2)

\* make_unavailable dropping the record without the transfer of lib.rs:174
make_unavailable_NoRefund(c, account_id) ==
  IF account_id \in DOMAIN c.available_players
  THEN Done([c EXCEPT !.available_players = Del(@, account_id)])
  ELSE Panic(c, "NotAvailable")

\* Contract::make_unavailable
make_unavailable(c, account_id) ==
  IF account_id \in DOMAIN c.available_players
  THEN LET config == c.available_players[account_id]
       IN Done(internal_transfer(
                 [c EXCEPT !.available_players = Del(@, account_id)],
                 config.token_id, account_id, config.deposit))
  ELSE Panic(c, "NotAvailable")

\* Contract::transfer_deposit_callback (callbacks.rs), chained at lib.rs:175-178
\* to the refund of make_unavailable with the account and its record: a
\* refund that failed puts the record back on the waiting list
transfer_deposit_callback(c, user, config, promise_result) ==
  IF promise_result = "Successful" THEN Done(c)
  ELSE Done([c EXCEPT !.available_players = Put(@, user, config)])

\* a start_game that never looks at the seed
NewGame_SameOrder(seed, player_1_id, player_2_id, reward, ts) ==
  change_state(create_game(player_1_id, player_2_id, reward, ts), "Active")

\* the game start_game creates: seed[0] % 2 picks who holds slot 0
NewGame(seed, player_1_id, player_2_id, reward, ts) ==
  change_state(
    IF seed % 2 = 0
    THEN create_game(player_2_id, player_1_id, reward, ts)
    ELSE create_game(player_1_id, player_2_id, reward, ts),
    "Active")

\* start_game lines 245-249, with the ids of finished games given out again
EnterGame_SameId(c, game, player_1_id, player_2_id) ==
  [c EXCEPT !.games = Put(@, c.next_game_id, game),
            !.available_players = Del(Del(@, player_1_id), player_2_id)]

\* start_game lines 245-249, with the id advanced by two
EnterGame_IdSkipped(c, game, player_1_id, player_2_id) ==
  [c EXCEPT !.games = Put(@, c.next_game_id, game),
            !.next_game_id = @ + 2,
            !.available_players = Del(Del(@, player_1_id), player_2_id)]

\* start_game lines 245-249: the game enters the active games under the
\* next id, the id advances, both players leave the waiting list
EnterGame(c, game, player_1_id, player_2_id) ==
  [c EXCEPT !.games = Put(@, c.next_game_id, game),
            !.next_game_id = @ + 1,
            !.available_players = Del(Del(@, player_1_id), player_2_id)]

\* a start_game that counts the game for the opponent alone (lib.rs:259)
StartedGame_InitiatorUncounted(c, ts, seed, player_1_id, player_2_id) ==
  LET player_2_config == c.available_players[player_2_id]
      token_id == player_2_config.token_id
      reward == [token_id |-> token_id,
                 balance |-> player_2_config.deposit * 2]
      c1 == EnterGame(c, NewGame(seed, player_1_id, player_2_id, reward, ts),
                      player_1_id, player_2_id)
  IN internal_update_stats(c1, token_id, player_2_id, "AddPlayedGame", 0)

\* a start_game holding one deposit as the game's balance
StartedGame_SingleDeposit(c, ts, seed, player_1_id, player_2_id) ==
  LET player_2_config == c.available_players[player_2_id]
      token_id == player_2_config.token_id
      reward == [token_id |-> token_id, balance |-> player_2_config.deposit]
      c1 == EnterGame(c, NewGame(seed, player_1_id, player_2_id, reward, ts),
                      player_1_id, player_2_id)
  IN internal_update_stats(
       internal_update_stats(c1, token_id, player_1_id, "AddPlayedGame", 0),
       token_id, player_2_id, "AddPlayedGame", 0)

\* the effect of a start_game that passed its checks
StartedGame(c, ts, seed, player_1_id, player_2_id) ==
  LET player_1_config == c.available_players[player_1_id]
      player_2_config == c.available_players[player_2_id]
      token_id == player_2_config.token_id
      reward == [token_id |-> token_id,
                 balance |-> player_2_config.deposit * 2]
      c1 == EnterGame(c, NewGame(seed, player_1_id, player_2_id, reward, ts),
                      player_1_id, player_2_id)
      c2 == IF player_1_config.referrer_id # NoAcc
            THEN internal_add_referrer(c1, player_1_id,
                                       player_1_config.referrer_id)
            ELSE c1
      c3 == IF player_2_config.referrer_id # NoAcc
            THEN internal_add_referrer(c2, player_2_id,
                                       player_2_config.referrer_id)
            ELSE c2
  IN internal_update_stats(
       internal_update_stats(c3, token_id, player_1_id, "AddPlayedGame", 0),
       token_id, player_2_id, "AddPlayedGame", 0)

\* start_game without the checked_mul of lines 215-218
start_game_Unchecked(c, ts, seed, player_1_id, player_2_id) ==
  IF player_2_id \notin DOMAIN c.available_players
  THEN Panic(c, "OpponentNotReady")
  ELSE IF player_1_id = player_2_id THEN Panic(c, "FindAFriend")
  ELSE IF player_1_id \notin DOMAIN c.available_players
       THEN Panic(c, "NotAvailable")
  ELSE IF ~PlayerIsFree(c, player_1_id) THEN Panic(c, "AnotherGame")
  ELSE LET player_1_config == c.available_players[player_1_id]
           player_2_config == c.available_players[player_2_id]
       IN IF player_2_config.opponent_id # NoAcc
             /\ player_2_config.opponent_id # player_1_id
          THEN Panic(c, "WrongAccount")
          ELSE IF player_1_config.deposit # player_2_config.deposit
               THEN Panic(c, "MismatchedDeposits")
          ELSE IF player_2_config.token_id # player_1_config.token_id
               THEN Panic(c, "MismatchTokens")
          ELSE Done(StartedGame(c, ts, seed, player_1_id, player_2_id))

\* Contract::start_game, called by player_1_id
start_game(c, ts, seed, player_1_id, player_2_id) ==
  IF player_2_id \notin DOMAIN c.available_players
  THEN Panic(c, "OpponentNotReady")
  ELSE IF player_1_id = player_2_id THEN Panic(c, "FindAFriend")
  ELSE IF player_1_id \notin DOMAIN c.available_players
       THEN Panic(c, "NotAvailable")
  ELSE IF ~PlayerIsFree(c, player_1_id) THEN Panic(c, "AnotherGame")
  ELSE LET player_1_config == c.available_players[player_1_id]
           player_2_config == c.available_players[player_2_id]
       IN IF player_2_config.opponent_id # NoAcc
             /\ player_2_config.opponent_id # player_1_id
          THEN Panic(c, "WrongAccount")
          ELSE IF player_1_config.deposit # player_2_config.deposit
               THEN Panic(c, "MismatchedDeposits")
          ELSE IF player_2_config.token_id # player_1_config.token_id
               THEN Panic(c, "MismatchTokens")
          ELSE IF player_2_config.deposit * 2 > MAX_BALANCE
               THEN Panic(c, "Overflow")
          ELSE Done(StartedGame(c, ts, seed, player_1_id, player_2_id))

\* make_move lines 274-278, without the test of the caller
MoveRefusal_AnyCaller(game, account_id, row, col) ==
  IF game.game_state # "Active" THEN "NotActive"
  ELSE check_move(game.board, row, col)

\* make_move lines 274-278 and 333-341: the panic of a move that is refused,
\* "Ok" for a move that is taken
MoveRefusal(game, account_id, row, col) ==
  IF account_id # current_player_account_id(game) THEN "NoAccess"
  ELSE IF game.game_state # "Active" THEN "NotActive"
  ELSE check_move(game.board, row, col)

\* make_move lines 280-285, with the mover left in place
PlacePiece_NoFlip(game, row, col) ==
  LET placed == [game.board EXCEPT !.tiles[<<row, col>>] = game.current_piece]
  IN [game EXCEPT !.board = update_winner(placed, row, col),
                  !.current_piece = other(game.current_piece)]

\* make_move lines 280-285, with row and column exchanged in the write
PlacePiece_Swapped(game, row, col) ==
  LET placed == [game.board EXCEPT !.tiles[<<col, row>>] = game.current_piece]
  IN [game EXCEPT !.board = update_winner(placed, col, row),
                  !.current_piece = other(game.current_piece),
                  !.current_player_index = 1 - game.current_player_index]

\* make_move lines 280-285, with the winner looked for before the write
PlacePiece_WinnerFirst(game, row, col) ==
  LET judged == update_winner(game.board, row, col)
  IN [game EXCEPT !.board = [judged EXCEPT !.tiles[<<row, col>>] =
                                             game.current_piece],
                  !.current_piece = other(game.current_piece),
                  !.current_player_index = 1 - game.current_player_index]

\* make_move lines 280-285: the piece is placed, piece and mover flip, the
\* winner is looked for from the played cell
PlacePiece(game, row, col) ==
  LET placed == [game.board EXCEPT !.tiles[<<row, col>>] = game.current_piece]
  IN [game EXCEPT !.board = update_winner(placed, row, col),
                  !.current_piece = other(game.current_piece),
                  !.current_player_index = 1 - game.current_player_index]

\* make_move lines 287-328 with a full board taken for a win of the mover
FinishByMove_TieToMover(c, gid, game) ==
  LET finished == change_state(game, "Finished")
      c1 == internal_update_game(c, gid, finished)
      winner_account ==
        IF game.board.winner = "Tie"
        THEN get_player_acc_by_piece(game, other(game.current_piece))
        ELSE get_player_acc_by_piece(game, game.board.winner)
      d == internal_distribute_reward(c1, gid, winner_account)
      pl == get_player_accounts(game)
      c2 == internal_store_game(d.ctr, gid,
              GameView(winner_account, pl[1], pl[2], game.reward.token_id,
                       d.balance))
  IN internal_stop_game(c2, gid)

\* make_move lines 287-331, without the settlement
FinishByMove_Unsettled(c, gid, game) ==
  LET finished == change_state(game, "Finished")
      c1 == internal_update_game(c, gid, finished)
      winner_account ==
        IF game.board.winner = "Tie" THEN NoAcc
        ELSE get_player_acc_by_piece(game, game.board.winner)
      pl == get_player_accounts(game)
      c2 == internal_store_game(c1, gid,
              GameView(IF winner_account = NoAcc THEN "Tie" ELSE winner_account,
                       pl[1], pl[2], game.reward.token_id, 0))
  IN internal_stop_game(c2, gid)

\* make_move lines 287-331, with the winner looked up by the piece now
\* active (the piece was switched at line 282)
FinishByMove_ActivePiece(c, gid, game) ==
  LET finished == change_state(game, "Finished")
      c1 == internal_update_game(c, gid, finished)
      winner_account ==
        IF game.board.winner = "Tie" THEN NoAcc
        ELSE get_player_acc_by_piece(game, game.current_piece)
      d == internal_distribute_reward(c1, gid, winner_account)
      pl == get_player_accounts(game)
      c2 == internal_store_game(d.ctr, gid,
              GameView(IF winner_account = NoAcc THEN "Tie" ELSE winner_account,
                       pl[1], pl[2], game.reward.token_id, d.balance))
  IN internal_stop_game(c2, gid)

\* make_move lines 287-331: the move made a winner or filled the board
FinishByMove(c, gid, game) ==
  LET finished == change_state(game, "Finished")
      c1 == internal_update_game(c, gid, finished)
      winner_account ==
        IF game.board.winner = "Tie" THEN NoAcc
        ELSE get_player_acc_by_piece(game, game.board.winner)
      d == internal_distribute_reward(c1, gid, winner_account)
      pl == get_player_accounts(game)
      c2 == internal_store_game(d.ctr, gid,
              GameView(IF winner_account = NoAcc THEN "Tie" ELSE winner_account,
                       pl[1], pl[2], game.reward.token_id, d.balance))
  IN internal_stop_game(c2, gid)

\* make_move lines 342-380 without the count of line 344
CountTurn_Uncounted(c, ts, gid, game, mover) ==
  LET previous_turn_timestamp == game.last_turn_timestamp
      timed == [game EXCEPT !.last_turn_timestamp = ts,
                            !.current_duration = ts - game.initiated_at]
  IN IF previous_turn_timestamp = 0
     THEN IF ts - game.initiated_at > max_turn_duration
          THEN internal_stop_expired_game(c, gid, mover)
          ELSE internal_update_game(c, gid, timed)
     ELSE IF timed.last_turn_timestamp - previous_turn_timestamp
               > max_turn_duration
          THEN internal_stop_expired_game(c, gid, mover)
     ELSE IF timed.current_duration <= max_game_duration
          THEN internal_update_game(c, gid, timed)
          ELSE internal_stop_expired_game(c, gid, mover)

\* make_move lines 342-380 with both bounds exclusive: a move exactly at a
\* bound forfeits
CountTurn_Exclusive(c, ts, gid, game, mover) ==
  LET previous_turn_timestamp == game.last_turn_timestamp
      timed == [game EXCEPT !.total_turns = @ + 1,
                            !.last_turn_timestamp = ts,
                            !.current_duration = ts - game.initiated_at]
  IN IF previous_turn_timestamp = 0
     THEN IF ts - game.initiated_at >= max_turn_duration
          THEN internal_stop_expired_game(c, gid, mover)
          ELSE internal_update_game(c, gid, timed)
     ELSE IF timed.last_turn_timestamp - previous_turn_timestamp
               >= max_turn_duration
          THEN internal_stop_expired_game(c, gid, mover)
     ELSE IF timed.current_duration < max_game_duration
          THEN internal_update_game(c, gid, timed)
          ELSE internal_stop_expired_game(c, gid, mover)

\* make_move lines 342-380: the turn is counted and timed; a late mover
\* forfeits
CountTurn(c, ts, gid, game, mover) ==
  LET previous_turn_timestamp == game.last_turn_timestamp
      timed == [game EXCEPT !.total_turns = @ + 1,
                            !.last_turn_timestamp = ts,
                            !.current_duration = ts - game.initiated_at]
  IN IF previous_turn_timestamp = 0
     THEN IF ts - game.initiated_at > max_turn_duration
          THEN internal_stop_expired_game(c, gid, mover)
          ELSE internal_update_game(c, gid, timed)
     ELSE IF timed.last_turn_timestamp - previous_turn_timestamp
               > max_turn_duration
          THEN internal_stop_expired_game(c, gid, mover)
     ELSE IF timed.current_duration <= max_game_duration
          THEN internal_update_game(c, gid, timed)
          ELSE internal_stop_expired_game(c, gid, mover)

\* make_move whose panic keeps what its checkpoint did
make_move_SweepKept(c, ts, account_id, gid, row, col) ==
  LET c1 == internal_ping_expired_games(c, ts)
  IN IF ~HasGame(c1, gid) THEN Panic(c1, "GameNotFound")
     ELSE LET game == c1.games[gid]
              moved == PlacePiece(game, row, col)
          IN IF MoveRefusal(game, account_id, row, col) # "Ok"
             THEN Panic(c1, MoveRefusal(game, account_id, row, col))
             ELSE IF moved.board.winner # "None"
                  THEN Done(FinishByMove(c1, gid, moved))
             ELSE Done(CountTurn(c1, ts, gid, moved, account_id))

\* Contract::make_move
make_move(c, ts, account_id, gid, row, col) ==
  LET c1 == internal_ping_expired_games(c, ts)
  IN IF ~HasGame(c1, gid) THEN Panic(c, "GameNotFound")
     ELSE LET game == c1.games[gid]
              moved == PlacePiece(game, row, col)
          IN IF MoveRefusal(game, account_id, row, col) # "Ok"
             THEN Panic(c, MoveRefusal(game, account_id, row, col))
             ELSE IF moved.board.winner # "None"
                  THEN Done(FinishByMove(c1, gid, moved))
             ELSE Done(CountTurn(c1, ts, gid, moved, account_id))

\* a settlement that requests the payout and leaves the game as it is: not
\* Finished, not archived, still among the games
SettleTo_LeftActive(c, gid, game, winner, player1, player2) ==
  internal_distribute_reward(c, gid, winner).ctr

\* give_up and stop_game lines 405-421, 460-476: the game is settled to
\* winner, finished, archived and removed
SettleTo(c, gid, game, winner, player1, player2) ==
  LET d == internal_distribute_reward(c, gid, winner)
      c1 == internal_update_game(d.ctr, gid, change_state(game, "Finished"))
      c2 == internal_store_game(c1, gid,
              GameView(winner, player1, player2, game.reward.token_id,
                       d.balance))
  IN internal_stop_game(c2, gid)

\* Contract::give_up, with the resigner penalized as stop_game penalizes
give_up_Penalized(c, account_id, gid) ==
  IF ~HasGame(c, gid) THEN Panic(c, "GameNotFound")
  ELSE LET game == c.games[gid]
           pl == get_player_accounts(game)
           c1 == internal_update_stats(c, game.reward.token_id, account_id,
                                       "AddPenaltyGame", 0)
       IN IF game.game_state # "Active" THEN Panic(c, "NotActive")
          ELSE IF account_id = pl[1]
               THEN Done(SettleTo(c1, gid, game, pl[2], pl[1], pl[2]))
          ELSE IF account_id = pl[2]
               THEN Done(SettleTo(c1, gid, game, pl[1], pl[1], pl[2]))
          ELSE Panic(c, "NotInGame")

\* Contract::give_up, with the caller taken for the winner
give_up_CallerWins(c, account_id, gid) ==
  IF ~HasGame(c, gid) THEN Panic(c, "GameNotFound")
  ELSE LET game == c.games[gid]
           pl == get_player_accounts(game)
       IN IF game.game_state # "Active" THEN Panic(c, "NotActive")
          ELSE IF account_id = pl[1]
               THEN Done(SettleTo(c, gid, game, pl[1], pl[1], pl[2]))
          ELSE IF account_id = pl[2]
               THEN Done(SettleTo(c, gid, game, pl[2], pl[1], pl[2]))
          ELSE Panic(c, "NotInGame")

\* Contract::give_up
give_up(c, account_id, gid) ==
  IF ~HasGame(c, gid) THEN Panic(c, "GameNotFound")
  ELSE LET game == c.games[gid]
           pl == get_player_accounts(game)
       IN IF game.game_state # "Active" THEN Panic(c, "NotActive")
          ELSE IF account_id = pl[1]
               THEN Done(SettleTo(c, gid, game, pl[2], pl[1], pl[2]))
          ELSE IF account_id = pl[2]
               THEN Done(SettleTo(c, gid, game, pl[1], pl[1], pl[2]))
          ELSE Panic(c, "NotInGame")

\* stop_game lines 440-443: the caller may stop the game now
MayStop(game, ts) ==
  \/ ts - game.initiated_at >= max_game_duration
  \/ ts - game.last_turn_timestamp > max_turn_duration

\* stop_game lines 445-476, with the stats of the looser dropped instead of
\* penalized
StopOn_ForgetsLooser(c, gid, game, winner, looser) ==
  LET c1 == SettleTo(c, gid, game, winner, winner, looser)
  IN [c1 EXCEPT !.stats = Del(@, looser)]

\* stop_game lines 445-476, with the penalty given to the winner
StopOn_PenalizeWinner(c, gid, game, winner, looser) ==
  SettleTo(internal_update_stats(c, game.reward.token_id, winner,
                                 "AddPenaltyGame", 0),
           gid, game, winner, winner, looser)

\* stop_game lines 445-476: winner stops the game on looser
StopOn(c, gid, game, winner, looser) ==
  SettleTo(internal_update_stats(c, game.reward.token_id, looser,
                                 "AddPenaltyGame", 0),
           gid, game, winner, winner, looser)

\* stop_game without the panic of lib.rs:450: a caller that is no player of
\* the game wins it from the current mover
stop_game_Outsider(c, ts, account_id, gid) ==
  IF ~HasGame(c, gid) THEN Panic(c, "GameNotFound")
  ELSE LET game == c.games[gid]
           pl == get_player_accounts(game)
           timed == [game EXCEPT !.current_duration = ts - game.initiated_at]
       IN IF game.game_state # "Active" THEN Panic(c, "NotActive")
          ELSE IF account_id = current_player_account_id(game)
               THEN Panic(c, "NoAccess")
          ELSE IF ~MayStop(game, ts) THEN Panic(c, "TooEarly")
          ELSE IF account_id = pl[1]
               THEN Done(StopOn(c, gid, timed, pl[1], pl[2]))
          ELSE Done(StopOn(c, gid, timed, account_id,
                           current_player_account_id(game)))

\* Contract::stop_game
stop_game(c, ts, account_id, gid) ==
  IF ~HasGame(c, gid) THEN Panic(c, "GameNotFound")
  ELSE LET game == c.games[gid]
           pl == get_player_accounts(game)
           timed == [game EXCEPT !.current_duration = ts - game.initiated_at]
       IN IF game.game_state # "Active" THEN Panic(c, "NotActive")
          ELSE IF account_id = current_player_account_id(game)
               THEN Panic(c, "NoAccess")
          ELSE IF ~MayStop(game, ts) THEN Panic(c, "TooEarly")
          ELSE IF account_id = pl[1]
               THEN Done(StopOn(c, gid, timed, pl[1], pl[2]))
          ELSE IF account_id = pl[2]
               THEN Done(StopOn(c, gid, timed, pl[2], pl[1]))
          ELSE Panic(c, "NotInGame")

(***************************************************************************)
(* The state machine: one action per public method, and the clock.  A      *)
(* method that panics changes nothing: the step of a rejected call leaves  *)
(* every variable as it was.                                               *)
(***************************************************************************)
NoCall == [op |-> "none", caller |-> NoAcc, gid |-> -1, row |-> -1,
           col |-> -1, transfers |-> <<>>]

\* Contract::new: every collection empty, next_game_id 0; the first block
\* has timestamp 1 (0 is the value of a last_turn_timestamp never set)
Init ==
  /\ now = 1
  /\ games = EmptyMap
  /\ available_players = EmptyMap
  /\ stats = EmptyMap
  /\ next_game_id = 0
  /\ stored_games = <<>>
  /\ affiliates = EmptyMap
  /\ payouts = <<>>
  /\ stored_log = <<>>
  /\ moved_by = EmptyMap
  /\ refunds = <<>>
  /\ last = NoCall

\* the call ends: a method that returned commits its contract and is the
\* last call, and inflight are the refunds then waiting for their
\* acknowledgment; a method that panicked leaves everything as it was
CommitWith(op, r, caller, gid, row, col, inflight) ==
  IF r.res = "ok"
  THEN /\ games' = r.ctr.games
       /\ available_players' = r.ctr.available_players
       /\ stats' = r.ctr.stats
       /\ next_game_id' = r.ctr.next_game_id
       /\ stored_games' = r.ctr.stored_games
       /\ affiliates' = r.ctr.affiliates
       /\ payouts' = r.ctr.payouts
       /\ stored_log' = r.ctr.stored_log
       /\ moved_by' = IF op = "make_move" THEN Put(moved_by, gid, caller)
                      ELSE moved_by
       /\ last' = [op |-> op, caller |-> caller, gid |-> gid,
                   row |-> row, col |-> col, transfers |-> r.ctr.out]
       /\ refunds' = inflight
       /\ UNCHANGED now
  ELSE UNCHANGED vars

\* the call ends, and a transfer it requested is acknowledged as successful
\* before the next call
Commit(op, r, caller, gid, row, col) ==
  CommitWith(op, r, caller, gid, row, col, refunds)

\* position of a cell in the order the explored movers prefer: row by row,
\* the first two columns swapped after the first row
CellRank(cell) ==
  cell[1] * BOARD_SIZE
    + (IF cell[1] > 0 /\ cell[2] < 2 THEN 1 - cell[2] ELSE cell[2])

\* the cells a mover of the game names: the first MoveChoices empty cells,
\* the first occupied cell, and one cell off the grid in each direction
Offered(game, row, col) ==
  IF ~InGrid(row, col) THEN row = 0 \/ col = 0
  ELSE IF game.board.tiles[<<row, col>>] # Empty
       THEN \A c \in Cells : game.board.tiles[c] # Empty
                               => CellRank(c) >= CellRank(<<row, col>>)
  ELSE Cardinality({c \in Cells : /\ game.board.tiles[c] = Empty
                                  /\ CellRank(c) < CellRank(<<row, col>>)})
         < MoveChoices

MakeAvailable ==
  \E a \in Players, d \in Deposits, o \in Opponents, r \in Referrers :
    /\ next_game_id < MaxGames
    /\ Commit("make_available", make_available(Ctr, now, a, d, o, r),
              a, -1, -1, -1)

MakeUnavailable ==
  \E a \in Accounts :
    /\ a \in Accounts
    /\ Commit("make_unavailable", make_unavailable(Ctr, a), a, -1, -1, -1)

StartGame ==
  \E a \in Accounts, b \in Accounts, seed \in 0..1 :
    /\ next_game_id < MaxGames
    /\ Commit("start_game", start_game(Ctr, now, seed, a, b), a,
              next_game_id, -1, -1)

MakeMove ==
  \E a \in Accounts, gid \in GameIds, row \in 0..BOARD_SIZE,
     col \in 0..BOARD_SIZE :
    /\ IF gid \in DOMAIN games THEN Offered(games[gid], row, col)
       ELSE row = 0 /\ col = 0
    /\ Commit("make_move", make_move(Ctr, now, a, gid, row, col),
              a, gid, row, col)

GiveUp ==
  \E a \in Accounts, gid \in GameIds :
    /\ gid \in GameIds
    /\ Commit("give_up", give_up(Ctr, a, gid), a, gid, -1, -1)

StopGame ==
  \E a \in Accounts, gid \in GameIds :
    /\ gid \in GameIds
    /\ Commit("stop_game", stop_game(Ctr, now, a, gid), a, gid, -1, -1)

\* the next block
Tick ==
  /\ now < MaxTime
  /\ now' = now + 1
  /\ last' = [NoCall EXCEPT !.op = "tick"]
  /\ UNCHANGED <<cvars, moved_by, refunds>>

Next ==
  \/ MakeAvailable
  \/ MakeUnavailable
  \/ StartGame
  \/ MakeMove
  \/ GiveUp
  \/ StopGame
  \/ Tick

Spec == Init /\ [][Next]_vars

(***************************************************************************)
(* Two games at once.  Four accounts registered and two games were started *)
(* in the first block; the players of game 0 play on, the players of game  *)
(* 1 stay away (Sitters), so that game 1 ends by the expiry sweep of a     *)
(* call made on game 0.                                                    *)
(***************************************************************************)
Sitters == {"b1", "b2"}

\* the contract Contract::new leaves
NewContract ==
  [games |-> EmptyMap, available_players |-> EmptyMap, stats |-> EmptyMap,
   next_game_id |-> 0, stored_games |-> <<>>, affiliates |-> EmptyMap,
   payouts |-> <<>>, stored_log |-> <<>>, out |-> <<>>]

\* the contract after acc registered at time ts with the least deposit
Registered(c, ts, acc) ==
  make_available(c, ts, acc, MIN_DEPOSIT_NEAR, NoAcc, NoAcc).ctr

\* the contract after a1, a2, b1 and b2 registered and a1 started game 0
\* with a2, b1 game 1 with b2, all at time ts
TwoGames(ts, seed0, seed1) ==
  LET c4 == Registered(Registered(Registered(Registered(
              NewContract, ts, "a1"), ts, "a2"), ts, "b1"), ts, "b2")
      c5 == start_game(c4, ts, seed0, "a1", "a2").ctr
  IN start_game(c5, ts, seed1, "b1", "b2").ctr

InitTwoGames ==
  /\ now = 1
  /\ \E seed0 \in 0..1, seed1 \in 0..1 :
       LET c == TwoGames(1, seed0, seed1)
       IN /\ games = c.games
          /\ available_players = c.available_players
          /\ stats = c.stats
          /\ next_game_id = c.next_game_id
          /\ stored_games = c.stored_games
          /\ affiliates = c.affiliates
          /\ payouts = c.payouts
          /\ stored_log = c.stored_log
  /\ moved_by = EmptyMap
  /\ refunds = <<>>
  /\ last = [NoCall EXCEPT !.op = "start_game"]

NextTwoGames ==
  \/ MakeMove
  \/ GiveUp
  \/ StopGame
  \/ Tick

SpecTwoGames == InitTwoGames /\ [][NextTwoGames]_vars

(***************************************************************************)
(* Matchmaking over a long time.  a1 and a2 register with NEAR or with the *)
(* whitelisted token, with deposits that match, differ or overflow when    *)
(* doubled, with or without a fixed opponent; they cancel, start a game,   *)
(* read the views, and let time pass until waiting records are stale.      *)
(***************************************************************************)
\* the timestamps of the blocks: the first two, and those around the age at
\* which the records of the first two blocks turn stale
MatchTimes ==
  {1, 2} \cup {t + max_game_duration + MAX_TIME_TO_BE_AVAILABLE : t \in 0..3}

\* deposits attached: the least one, and one whose double overflows
MatchDeposits == {MIN_DEPOSIT_NEAR, (MAX_BALANCE + 1) \div 2}

\* opponent_id given: none, or a1
MatchOpponents == {NoAcc, "a1"}

MakeAvailableAny ==
  \E a \in Players, d \in MatchDeposits, o \in MatchOpponents :
    /\ next_game_id < MaxGames
    /\ Commit("make_available", make_available(Ctr, now, a, d, o, NoAcc),
              a, -1, -1, -1)

FtOnTransfer ==
  \E a \in Players, d \in MatchDeposits, o \in MatchOpponents :
    /\ next_game_id < MaxGames
    /\ Commit("ft_on_transfer",
              ft_on_transfer(Ctr, now, CHEDDAR, a, d, o, NoAcc), a, -1, -1, -1)

\* a third account registers with the least NEAR deposit, in any block
MakeAvailableThird ==
  /\ next_game_id < MaxGames
  /\ Commit("make_available",
            make_available(Ctr, now, "a3", MIN_DEPOSIT_NEAR, NoAcc, NoAcc),
            "a3", -1, -1, -1)

\* the read views: get_available_players, get_active_games, get_stats
View ==
  /\ last' = [NoCall EXCEPT !.op = "view"]
  /\ UNCHANGED <<now, cvars, moved_by, refunds>>

\* a clock that swept by itself: the next block evicts what is stale in it
Wait_Sweeping ==
  /\ \E t \in MatchTimes :
       /\ t > now
       /\ \A u \in MatchTimes : u > now => t <= u
       /\ now' = t
       /\ available_players' = ExpirySweep(Ctr, t).available_players
       /\ games' = ExpirySweep(Ctr, t).games
       /\ stats' = ExpirySweep(Ctr, t).stats
       /\ stored_games' = ExpirySweep(Ctr, t).stored_games
       /\ payouts' = ExpirySweep(Ctr, t).payouts
       /\ stored_log' = ExpirySweep(Ctr, t).stored_log
  /\ last' = [NoCall EXCEPT !.op = "tick"]
  /\ UNCHANGED <<next_game_id, affiliates, moved_by, refunds>>

\* the next block, at the next timestamp of MatchTimes
Wait ==
  /\ \E t \in MatchTimes :
       /\ t > now
       /\ \A u \in MatchTimes : u > now => t <= u
       /\ now' = t
  /\ last' = [NoCall EXCEPT !.op = "tick"]
  /\ UNCHANGED <<cvars, moved_by, refunds>>

NextMatch ==
  \/ MakeAvailableAny
  \/ FtOnTransfer
  \/ MakeAvailableThird
  \/ MakeUnavailable
  \/ StartGame
  \/ View
  \/ Wait

SpecMatch == Init /\ [][NextMatch]_vars

(***************************************************************************)
(* Refunds in flight.  A cancelled record's refund is acknowledged in a     *)
(* later call of its own, as successful or as failed, after any calls that *)
(* came in between: a1 and a2 register, cancel, register again, start a    *)
(* game, while refunds wait for their acknowledgment.                      *)
(***************************************************************************)
\* make_unavailable, its refund waiting for the acknowledgment
Cancel ==
  \E a \in Players :
    /\ Len(refunds) < MaxRefunds
    /\ a \in DOMAIN available_players
    /\ CommitWith("make_unavailable", make_unavailable(Ctr, a), a, -1, -1, -1,
                  Append(refunds,
                         [user |-> a, config |-> available_players[a]]))

\* refunds without its i-th element
Acknowledged(i) ==
  [k \in 1..(Len(refunds) - 1) |->
     IF k < i THEN refunds[k] ELSE refunds[k + 1]]

\* the acknowledgment of any refund in flight, successful or failed
TransferDepositCallback ==
  \E i \in 1..Len(refunds), promise_result \in {"Successful", "Failed"} :
    CommitWith(IF promise_result = "Failed" THEN "transfer_failed"
               ELSE "transfer_succeeded",
               [transfer_deposit_callback(Ctr, refunds[i].user,
                                          refunds[i].config, promise_result)
                  EXCEPT !.ctr.out =
                    <<[token_id |-> refunds[i].config.token_id,
                       receiver |-> refunds[i].user,
                       amount |-> refunds[i].config.deposit]>>],
               refunds[i].user, -1, -1, -1, Acknowledged(i))

NextRefund ==
  \/ MakeAvailableAny
  \/ Cancel
  \/ TransferDepositCallback
  \/ StartGame

SpecRefund == Init /\ [][NextRefund]_vars

(***************************************************************************)
(* One game, every move.  a1 and a2 registered and started game 0 in the   *)
(* first block; the mover names any cell of the board, so that every       *)
(* position of the game is reached.                                        *)
(***************************************************************************)
\* the contract after a1 and a2 registered and a1 started game 0 with a2
OneGame(ts, seed) ==
  start_game(Registered(Registered(NewContract, ts, "a1"), ts, "a2"),
             ts, seed, "a1", "a2").ctr

InitAnyMove ==
  /\ now = 1
  /\ \E seed \in 0..1 :
       LET c == OneGame(1, seed)
       IN /\ games = c.games
          /\ available_players = c.available_players
          /\ stats = c.stats
          /\ next_game_id = c.next_game_id
          /\ stored_games = c.stored_games
          /\ affiliates = c.affiliates
          /\ payouts = c.payouts
          /\ stored_log = c.stored_log
  /\ moved_by = EmptyMap
  /\ refunds = <<>>
  /\ last = [NoCall EXCEPT !.op = "start_game"]

AnyMove ==
  \E a \in Players, row \in Idx, col \in Idx :
    /\ 0 \in DOMAIN games
    /\ Commit("make_move", make_move(Ctr, now, a, 0, row, col), a, 0, row, col)

NextAnyMove == AnyMove

SpecAnyMove == InitAnyMove /\ [][NextAnyMove]_vars

(***************************************************************************)
(* One game, played slowly.  a1 and a2 registered and started game 0 in    *)
(* the first block; they move, at once or in a later block, while the      *)
(* clock runs to beyond the whole-game bound.                              *)
(***************************************************************************)
\* the block timestamp of a slow game ranges over 1..MaxLateTime, to beyond
\* the first block plus max_game_duration
MaxLateTime == 12

\* the next block of a slow game
LateTick ==
  /\ now < MaxLateTime
  /\ now' = now + 1
  /\ last' = [NoCall EXCEPT !.op = "tick"]
  /\ UNCHANGED <<cvars, moved_by, refunds>>

NextSlowGame ==
  \/ MakeMove
  \/ LateTick

SpecSlowGame == InitAnyMove /\ [][NextSlowGame]_vars

(***************************************************************************)
(* A series of games.  Four accounts register, start games with each       *)
(* other, two at a time at most, and resign them, one game after another.  *)
(***************************************************************************)
\* start_game is explored in a series while next_game_id < MaxSeries
MaxSeries == 3

\* the accounts of a series
SeriesAccounts == Players \cup Sitters

\* make_available with the least deposit
RegisterLeast ==
  \E a \in SeriesAccounts :
    /\ next_game_id < MaxSeries
    /\ Commit("make_available",
              make_available(Ctr, now, a, MIN_DEPOSIT_NEAR, NoAcc, NoAcc),
              a, -1, -1, -1)

\* start_game, which returns the id the game is put under
StartSeries ==
  \E a \in SeriesAccounts, b \in SeriesAccounts, seed \in 0..1 :
    /\ next_game_id < MaxSeries
    /\ Commit("start_game", start_game(Ctr, now, seed, a, b), a,
              next_game_id, -1, -1)

\* give_up on any id given out, and on the next one
Resign ==
  \E a \in SeriesAccounts, gid \in 0..MaxSeries :
    /\ gid <= next_game_id
    /\ Commit("give_up", give_up(Ctr, a, gid), a, gid, -1, -1)

NextSeries ==
  \/ RegisterLeast
  \/ StartSeries
  \/ Resign

SpecSeries == Init /\ [][NextSeries]_vars

(***************************************************************************)
(* Properties.                                                             *)
(***************************************************************************)
\* the last element of a non-empty sequence
LastOf(seq) == seq[Len(seq)]

\* game gid has been settled
Settled(gid) == \E i \in DOMAIN payouts : payouts[i].game_id = gid

\* game gid was played and is over
Finished(gid) == gid \notin DOMAIN games /\ Settled(gid)

\* the step is an accepted make_move
MoveAccepted == last'.op = "make_move" /\ cvars' # cvars

\* the number of occupied cells of a board
Occupied(board) == Cardinality({c \in Cells : board.tiles[c] # Empty})

\* C1: on every settlement path the payouts to players and referrers plus
\* the fee the service retains equal the game's combined wager exactly.
C1_Conservation ==
  \A i \in DOMAIN payouts :
    payouts[i].to_players + payouts[i].to_referrers + payouts[i].fee_kept
      = payouts[i].balance

\* the number of entries of log that are about game gid
EntriesOf(log, gid) == Cardinality({i \in DOMAIN log : log[i] = gid})

\* C2: a game that has left the Active state, by whichever path, has been
\* settled exactly once and archived exactly once under its id; a game
\* that is Active has not been settled or archived; no game is settled
\* twice or ends without settlement.
C2_SettledExactlyOnce ==
  \A gid \in GameIds :
    LET settlements == EntriesOf([i \in DOMAIN payouts |-> payouts[i].game_id],
                                 gid)
        archivings == EntriesOf(stored_log, gid)
        views == EntriesOf([i \in DOMAIN stored_games |->
                              stored_games[i].game_id], gid)
    IN /\ gid \in DOMAIN games =>
            /\ games[gid].game_state = "Active"
            /\ gid < next_game_id
            /\ settlements = 0 /\ archivings = 0 /\ views = 0
       /\ gid \notin DOMAIN games /\ gid < next_game_id =>
            settlements = 1 /\ archivings = 1 /\ views <= 1
       /\ gid >= next_game_id =>
            settlements = 0 /\ archivings = 0 /\ views = 0

\* C2 witness: one make_move on game 0 ended game 0 by its move and game 1
\* by the expiry sweep: players of both games were paid in that call
C2_Witness ==
  /\ last.op = "make_move"
  /\ last.gid = 0
  /\ Finished(0) /\ Finished(1)
  /\ \E i \in DOMAIN last.transfers : last.transfers[i].receiver \in Sitters
  /\ \E i \in DOMAIN last.transfers : last.transfers[i].receiver \in Players

\* C3: Finished is terminal: no make_move, give_up or stop_game on the id
\* of a finished game is accepted, and the game is never Active again.
C3_FinishedIsTerminal ==
  /\ [](\A gid \in GameIds : Finished(gid) =>
          \A a \in Accounts :
            /\ give_up(Ctr, a, gid).res # "ok"
            /\ stop_game(Ctr, now, a, gid).res # "ok"
            /\ \A row \in 0..BOARD_SIZE, col \in 0..BOARD_SIZE :
                 make_move(Ctr, now, a, gid, row, col).res # "ok")
  /\ [][\A gid \in GameIds : Finished(gid) => Finished(gid)']_vars

\* C3 witness: game 0 is over, the clock has moved since, and its winner's
\* further calls on it are refused
C3_Witness ==
  /\ Finished(0)
  /\ last.op = "tick"
  /\ LET winner == LastOf(payouts).winner
     IN /\ winner \in Players
        /\ give_up(Ctr, winner, 0).res = "GameNotFound"
        /\ stop_game(Ctr, now, winner, 0).res = "GameNotFound"
        /\ make_move(Ctr, now, winner, 0, 2, 2).res = "GameNotFound"

\* C4: make_move is rejected when the game is not Active, when the caller
\* is not the current mover (no-access), when the cell is off the grid
\* (invalid-position) and when the cell is occupied (tile-filled); the
\* rejected call leaves the contract, the game's board, mover index and
\* turn counter included, as it was.
C4_BadMoveRejected ==
  \A a \in Accounts, gid \in GameIds,
     row \in 0..BOARD_SIZE, col \in 0..BOARD_SIZE :
    LET r == make_move(Ctr, now, a, gid, row, col)
    IN /\ r.res # "ok" => r.ctr = Ctr
       /\ gid \notin DOMAIN games => r.res # "ok"
       /\ gid \in DOMAIN games =>
            LET game == games[gid]
                mover == current_player_account_id(game)
                live == ~GameExpired(game, now)
            IN /\ game.game_state # "Active" => r.res # "ok"
               /\ a # mover => r.res # "ok" /\ (live => r.res = "NoAccess")
               /\ ~InGrid(row, col) =>
                    /\ r.res # "ok"
                    /\ (live /\ a = mover => r.res = "InvalidPosition")
               /\ InGrid(row, col) /\ game.board.tiles[<<row, col>>] # Empty =>
                    /\ r.res # "ok"
                    /\ (live /\ a = mover => r.res = "TileFilled")

\* C4 witness: right after an accepted move the same cell is refused to the
\* next mover as filled, the mover of the last move is refused access, and a
\* cell off the grid is refused as invalid
C4_Witness ==
  /\ last.op = "make_move"
  /\ last.gid \in DOMAIN games
  /\ LET game == games[last.gid]
         mover == current_player_account_id(game)
     IN /\ make_move(Ctr, now, mover, last.gid, last.row, last.col).res
             = "TileFilled"
        /\ make_move(Ctr, now, last.caller, last.gid, 2, 2).res = "NoAccess"
        /\ make_move(Ctr, now, mover, last.gid, 0, BOARD_SIZE).res
             = "InvalidPosition"

\* C5: an accepted make_move is made by the current mover, places the
\* active piece at the chosen cell and flips the active piece and the mover
\* index; the same account never makes two consecutive accepted moves of a
\* game.
C5_MoversAlternate ==
  [][MoveAccepted =>
       LET gid == last'.gid
           game == games[gid]
       IN /\ last'.caller = current_player_account_id(game)
          /\ gid \in DOMAIN moved_by => moved_by[gid] # last'.caller
          /\ gid \in DOMAIN games' =>
               /\ games'[gid].board.tiles =
                    [game.board.tiles EXCEPT ![<<last'.row, last'.col>>] =
                                               game.current_piece]
               /\ game.board.tiles[<<last'.row, last'.col>>] = Empty
               /\ games'[gid].current_piece = other(game.current_piece)
               /\ games'[gid].current_player_index
                    = 1 - game.current_player_index
               /\ current_player_account_id(games'[gid]) # last'.caller]_vars

\* C5 witness: a game in which both players have moved and the last call
\* was a move
C5_Witness ==
  /\ last.op = "make_move"
  /\ last.gid \in DOMAIN games
  /\ games[last.gid].total_turns >= 3
  /\ moved_by[last.gid] = last.caller

\* C6: a cell that holds a piece keeps that piece for the rest of the game.
C6_CellsImmutable ==
  [][\A gid \in (DOMAIN games) \cap (DOMAIN games'), cell \in Cells :
       games[gid].board.tiles[cell] # Empty =>
         games'[gid].board.tiles[cell] = games[gid].board.tiles[cell]]_vars

\* C6 witness: a move was made on a board that already held pieces of both
\* players
C6_Witness ==
  /\ last.op = "make_move"
  /\ last.gid \in DOMAIN games
  /\ Occupied(games[last.gid].board) >= 4

\* what the settlement of a won game pays the winner
WinnerReward(balance) == balance - FeeOf(balance)

\* contract d is contract c after game gid was settled once to winner,
\* who was paid, and archived once with that result
SettledOnce(c, d, gid, winner) ==
  /\ gid \notin DOMAIN d.games
  /\ Len(d.payouts) = Len(c.payouts) + 1
  /\ LastOf(d.payouts).game_id = gid
  /\ LastOf(d.payouts).winner = winner
  /\ \E i \in DOMAIN d.out :
       /\ d.out[i].receiver = winner
       /\ d.out[i].amount = WinnerReward(c.games[gid].reward.balance)
  /\ d.stored_log = Append(c.stored_log, gid)
  /\ LastOf(d.stored_games).game_id = gid
  /\ LastOf(d.stored_games).game_result = winner
  /\ StatsOf(d, winner).victories_num = StatsOf(c, winner).victories_num + 1

\* C7: a valid move that does not end the game by itself and comes more
\* than max_turn_duration after the previous turn (after initiation for the
\* first move), or more than max_game_duration after initiation, is taken
\* and force-terminates the game in that call: the mover is penalized and
\* the other player wins.
C7_LateMoveForfeits ==
  \A gid \in DOMAIN games, row \in Idx, col \in Idx :
    LET game == games[gid]
        mover == current_player_account_id(game)
        r == make_move(Ctr, now, mover, gid, row, col)
        late == \/ now - game.initiated_at > max_game_duration
                \/ /\ game.last_turn_timestamp = 0
                   /\ now >= game.initiated_at + max_turn_duration + 1
                \/ /\ game.last_turn_timestamp # 0
                   /\ now >= game.last_turn_timestamp + max_turn_duration + 1
    IN (/\ late
        /\ game.board.tiles[<<row, col>>] = Empty
        /\ PlacePiece(game, row, col).board.winner = "None") =>
         /\ r.res = "ok"
         /\ SettledOnce(Ctr, r.ctr, gid, next_player_account_id(game))
         /\ StatsOf(r.ctr, mover).penalties_num
              = StatsOf(Ctr, mover).penalties_num + 1

\* C8: stop_game is rejected whenever the game's duration has not exceeded
\* max_game_duration and the time since the last turn (since initiation
\* when no move was made) has not exceeded max_turn_duration; the contract
\* stays as it was.
C8_EarlyStopRejected ==
  \A gid \in DOMAIN games, a \in Accounts :
    LET game == games[gid]
        r == stop_game(Ctr, now, a, gid)
    IN (/\ now - game.initiated_at <= max_game_duration
        /\ SinceLastTurn(game, now) <= max_turn_duration) =>
         r.res # "ok" /\ r.ctr = Ctr

\* C9: stop_game by the game's current mover is rejected with no-access;
\* an accepted stop_game is the non-mover's, who wins and is paid, the
\* other player's penalties_num grows by exactly 1, and the game is
\* finished, archived and out of the active games.
C9_StopGame ==
  \A gid \in DOMAIN games, a \in Accounts :
    LET game == games[gid]
        mover == current_player_account_id(game)
        r == stop_game(Ctr, now, a, gid)
    IN /\ a = mover => r.res = "NoAccess" /\ r.ctr = Ctr
       /\ r.res = "ok" =>
            /\ a = next_player_account_id(game)
            /\ SettledOnce(Ctr, r.ctr, gid, a)
            /\ StatsOf(r.ctr, mover).penalties_num
                 = StatsOf(Ctr, mover).penalties_num + 1
            /\ StatsOf(r.ctr, a).penalties_num = StatsOf(Ctr, a).penalties_num

\* C9 witness: a stop_game was accepted: its caller was paid the reward and
\* the other player of the archived game carries the penalty
C9_Witness ==
  /\ last.op = "stop_game"
  /\ Finished(last.gid)
  /\ \E i \in DOMAIN last.transfers : last.transfers[i].receiver = last.caller
  /\ StatsOf(Ctr, LastOf(stored_games).player2).penalties_num = 1
  /\ LastOf(stored_games).player2 # last.caller

TiedOnce(c, d, gid) ==
  LET pl == get_player_accounts(c.games[gid])
      refund == TieRefund(c.games[gid].reward.balance)
  IN /\ gid \notin DOMAIN d.games
     /\ Len(d.payouts) = Len(c.payouts) + 1
     /\ LastOf(d.payouts).game_id = gid
     /\ LastOf(d.payouts).winner = NoAcc
     /\ \A k \in 1..2 :
          /\ \E i \in DOMAIN d.out : /\ d.out[i].receiver = pl[k]
                                     /\ d.out[i].amount = refund
          /\ StatsOf(d, pl[k]).victories_num = StatsOf(c, pl[k]).victories_num
     /\ d.stored_log = Append(c.stored_log, gid)
     /\ LastOf(d.stored_games).game_id = gid
     /\ LastOf(d.stored_games).game_result = "Tie"

\* C11: an accepted move that makes a winning run or fills the board ends
\* the game in that call: the mover wins, or the game is a tie; the game is
\* settled, archived and out of the active games, and the mover is not
\* penalized.
C11_MoveEndsGame ==
  \A gid \in DOMAIN games, row \in Idx, col \in Idx :
    LET game == games[gid]
        mover == current_player_account_id(game)
        r == make_move(Ctr, now, mover, gid, row, col)
        outcome == update_winner(
                     [game.board EXCEPT !.tiles[<<row, col>>] =
                                          game.current_piece], row, col).winner
    IN (r.res = "ok" /\ outcome # "None") =>
         /\ IF outcome = "Tie" THEN TiedOnce(Ctr, r.ctr, gid)
            ELSE /\ outcome = game.current_piece
                 /\ SettledOnce(Ctr, r.ctr, gid, mover)
         /\ \A a \in DOMAIN r.ctr.stats :
              StatsOf(r.ctr, a).penalties_num = StatsOf(Ctr, a).penalties_num

\* C11 witness: the last call was a move made after the game's first block
\* that won the game for its caller, who carries no penalty
C11_Witness ==
  /\ last.op = "make_move"
  /\ Finished(last.gid)
  /\ LastOf(payouts).game_id = last.gid
  /\ LastOf(payouts).winner = last.caller
  /\ LastOf(stored_games).game_result = last.caller
  /\ StatsOf(Ctr, last.caller).penalties_num = 0
  /\ now > 1

\* the cell (row, col) of tiles lies on a straight segment of WIN_LENGTH
\* cells, horizontal, vertical or diagonal, that all hold piece
OnRun(tiles, piece, row, col) ==
  \E axis \in Axes, k \in 0..(WIN_LENGTH - 1) :
    \A j \in 0..(WIN_LENGTH - 1) :
      LET r == row + (j - k) * axis[1]
          c == col + (j - k) * axis[2]
      IN InGrid(r, c) /\ tiles[<<r, c>>] = piece

\* C12: after a move at (row, col) the board's winner is the mover's piece
\* exactly when the played cell lies on a horizontal, vertical or diagonal
\* run of that piece of the winning length; it is Tie exactly when there is
\* no such run and every cell is occupied; otherwise it is unset.  A
\* winning run completed on the last empty cell is a win.
C12_WinnerDetected ==
  \A gid \in DOMAIN games, row \in Idx, col \in Idx :
    LET game == games[gid]
        piece == game.current_piece
        tiles == [game.board.tiles EXCEPT ![<<row, col>>] = piece]
        winner == PlacePiece(game, row, col).board.winner
    IN game.board.tiles[<<row, col>>] = Empty =>
         /\ game.board.winner = "None"
         /\ winner = piece <=> OnRun(tiles, piece, row, col)
         /\ winner = "Tie" <=> /\ ~OnRun(tiles, piece, row, col)
                               /\ \A c \in Cells : tiles[c] # Empty
         /\ winner = "None" <=> /\ ~OnRun(tiles, piece, row, col)
                                /\ \E c \in Cells : tiles[c] = Empty
         /\ winner \in {piece, "Tie", "None"}

\* C12 witness: eight moves were made and the move on the last empty cell
\* completes a run: it wins
C12_Witness ==
  /\ last.op = "make_move"
  /\ 0 \in DOMAIN games
  /\ Occupied(games[0].board) = BOARD_SIZE * BOARD_SIZE - 1
  /\ \E row \in Idx, col \in Idx :
       /\ games[0].board.tiles[<<row, col>>] = Empty
       /\ PlacePiece(games[0], row, col).board.winner = games[0].current_piece
       /\ make_move(Ctr, now, current_player_account_id(games[0]),
                    0, row, col).res = "ok"

\* the entry points that change the contract
Mutating == {"make_available", "make_unavailable", "start_game", "make_move",
             "give_up", "stop_game"}

\* C13: every state-mutating entry point runs the expiry sweep, both
\* passes, before it processes its request: right after an accepted call of
\* any of them no waiting record is stale and no active game is timed out.
C13_EveryCallSweeps ==
  last.op \in Mutating =>
    /\ \A a \in DOMAIN available_players :
         ~PlayerExpired(available_players[a], now)
    /\ \A gid \in DOMAIN games : ~GameExpired(games[gid], now)

\* C14: the sweep at the start of make_move ends every Active game that
\* is past a bound, the game moved in included: for a move its game would
\* take, each such game's non-mover gains a victory, its current mover a
\* penalty (and so is among the penalized accounts), the game leaves the
\* active games, and after the call no Active game is past a bound.
C14_MoveSweepsAllGames ==
  \A gid \in DOMAIN games, row \in Idx, col \in Idx :
    LET a == current_player_account_id(games[gid])
        r == make_move(Ctr, now, a, gid, row, col)
    IN MoveRefusal(games[gid], a, row, col) = "Ok" =>
         /\ \A g \in DOMAIN games :
              GameExpired(games[g], now) =>
                LET looser == current_player_account_id(games[g])
                    winner == next_player_account_id(games[g])
                IN /\ g \notin DOMAIN r.ctr.games
                   /\ StatsOf(r.ctr, winner).victories_num
                        = StatsOf(Ctr, winner).victories_num + 1
                   /\ StatsOf(r.ctr, looser).penalties_num
                        = StatsOf(Ctr, looser).penalties_num + 1
         /\ \A g \in DOMAIN r.ctr.games : ~GameExpired(r.ctr.games[g], now)

\* C14, for the games other than the one moved in: an accepted make_move
\* has ended every other Active game that was past a bound, with the
\* victory and the penalty as stated, and has left the games within their
\* bounds alone; the game moved in was within its bounds.
C14_OtherGamesSwept ==
  \A a \in Accounts, gid \in GameIds, row \in Idx, col \in Idx :
    LET r == make_move(Ctr, now, a, gid, row, col)
    IN r.res = "ok" =>
         /\ \A g \in DOMAIN games :
              GameExpired(games[g], now) =>
                LET looser == current_player_account_id(games[g])
                    winner == next_player_account_id(games[g])
                IN /\ g \notin DOMAIN r.ctr.games
                   /\ g # gid
                   /\ StatsOf(r.ctr, winner).victories_num
                        = StatsOf(Ctr, winner).victories_num + 1
                   /\ StatsOf(r.ctr, looser).penalties_num
                        = StatsOf(Ctr, looser).penalties_num + 1
                   /\ \E i \in DOMAIN r.ctr.payouts :
                        /\ r.ctr.payouts[i].game_id = g
                        /\ r.ctr.payouts[i].winner = winner
         /\ \A g \in DOMAIN r.ctr.games : ~GameExpired(r.ctr.games[g], now)
         /\ \A g \in DOMAIN games :
              ~GameExpired(games[g], now) /\ g # gid =>
                g \in DOMAIN r.ctr.games /\ r.ctr.games[g] = games[g]

\* a state C14_OtherGamesSwept is about: a move in game 0 was accepted and
\* its sweep ended game 1,
\* whose first mover never moved: that account carries the penalty, the
\* other one the victory, and game 0 goes on
C14_Witness ==
  /\ last.op = "make_move"
  /\ last.gid = 0
  /\ 0 \in DOMAIN games
  /\ Finished(1)
  /\ \E s \in Sitters : /\ StatsOf(Ctr, s).penalties_num = 1
                        /\ StatsOf(Ctr, s).victories_num = 0
  /\ \E s \in Sitters : /\ StatsOf(Ctr, s).victories_num = 1
                        /\ LastOf(payouts).winner = s
                        /\ \E i \in DOMAIN last.transfers :
                             last.transfers[i].receiver = s

\* the waiting accounts whose record is older than max_game_duration plus
\* the grace window at ts
Stale(ts) ==
  {p \in DOMAIN available_players :
     ts - available_players[p].created_at
       > max_game_duration + MAX_TIME_TO_BE_AVAILABLE}

\* C15: a make_available that succeeds has evicted exactly the waiting
\* records older than max_game_duration plus the grace window, each with one
\* refund of its deposit in its token to its account, and has left every
\* younger record as it was.
C15_StaleRecordsEvicted ==
  \A a \in Accounts, d \in MatchDeposits :
    LET r == make_available(Ctr, now, a, d, NoAcc, NoAcc)
        kept == DOMAIN available_players \ Stale(now)
    IN r.res = "ok" =>
         /\ DOMAIN r.ctr.available_players = kept \cup {a}
         /\ \A p \in kept :
              /\ p # a
              /\ r.ctr.available_players[p] = available_players[p]
         /\ r.ctr.available_players[a].created_at = now
         /\ Len(r.ctr.out) = Cardinality(Stale(now))
         /\ \A p \in Stale(now) :
              \E i \in 1..Len(r.ctr.out) :
                r.ctr.out[i] = [token_id |-> available_players[p].token_id,
                                receiver |-> p,
                                amount |-> available_players[p].deposit]

\* a make_available has refunded one stale record and left a younger one
C15_Witness ==
  /\ last.op = "make_available"
  /\ Len(last.transfers) = 1
  /\ last.transfers[1].receiver = last.caller
  /\ \E p \in DOMAIN available_players :
       /\ p # last.caller
       /\ available_players[p].created_at < now

\* C16: the sweep is idempotent: at any timestamp from now on, the contract
\* (records, games, stats, archive and the transfers requested) is the same
\* after a second sweep as after the first; so is it for each pass alone.
C16_SweepIdempotent ==
  \A ts \in MatchTimes :
    ts >= now =>
      LET once == ExpirySweep(Ctr, ts)
          players == internal_ping_expired_players(Ctr, ts)
          played == internal_ping_expired_games(Ctr, ts)
      IN /\ ExpirySweep(once, ts) = once
         /\ internal_ping_expired_players(players, ts) = players
         /\ internal_ping_expired_games(played, ts) = played

\* a stale record and a timed-out game are both there, and the sweep at the
\* current timestamp evicts the one and terminates the other
C16_Witness ==
  LET once == ExpirySweep(Ctr, now)
  IN /\ Stale(now) # {}
     /\ \E gid \in DOMAIN games : GameExpired(games[gid], now)
     /\ DOMAIN once.available_players # DOMAIN available_players
     /\ DOMAIN once.games # DOMAIN games
     /\ Len(once.out) >= 2

StartRefused(initiator, opponent) ==
  IF opponent \notin DOMAIN available_players THEN "opponent not registered"
  ELSE IF initiator = opponent THEN "initiator is the opponent"
  ELSE IF initiator \notin DOMAIN available_players
       THEN "initiator not registered"
  ELSE LET mine == available_players[initiator]
           theirs == available_players[opponent]
       IN IF theirs.opponent_id \notin {NoAcc, initiator}
          THEN "fixed opponent"
          ELSE IF mine.deposit # theirs.deposit THEN "deposits differ"
          ELSE IF mine.token_id # theirs.token_id THEN "tokens differ"
          ELSE IF 2 * theirs.deposit > MAX_BALANCE THEN "overflow"
          ELSE ""

\* C18: start_game fails when the opponent is not registered, the initiator
\* is the opponent, the initiator is not registered, the opponent's record
\* fixes another opponent, the deposits differ, the tokens differ, or twice
\* the deposit overflows; a start_game that fails leaves the contract (both
\* records, the games, next_game_id) as it was, and one that succeeds never
\* holds a wrapped balance.
C18_StartGameRefusals ==
  \A initiator \in Accounts, opponent \in Accounts, seed \in 0..1 :
    LET r == start_game(Ctr, now, seed, initiator, opponent)
    IN /\ StartRefused(initiator, opponent) # "" => r.res # "ok"
       /\ r.res # "ok" =>
            /\ r.ctr.available_players = available_players
            /\ r.ctr.games = games
            /\ r.ctr.next_game_id = next_game_id
            /\ r.ctr = Ctr
       /\ r.res = "ok" =>
            r.ctr.games[next_game_id].reward.balance
              = 2 * available_players[opponent].deposit

\* a1 and a2 match in everything, with a deposit whose double overflows:
\* start_game is refused for the overflow alone; a3 is refused by a2, who
\* waits for a1, and a1 by a3, whose deposit is another
C18_Witness ==
  /\ StartRefused("a1", "a2") = "overflow"
  /\ start_game(Ctr, now, 0, "a1", "a2").res = "Overflow"
  /\ StartRefused("a3", "a2") = "fixed opponent"
  /\ StartRefused("a1", "a3") = "deposits differ"

\* C19: a start_game that succeeds removes the two records and no other,
\* adds exactly one game, under the id next_game_id had, leaving the others;
\* the game is Active, holds the token both records name and twice their
\* deposit, has an empty board, no turn played and last_turn_timestamp 0;
\* games_played grows by one for the two players and for nobody else.
C19_StartGameEffect ==
  \A initiator \in Accounts, opponent \in Accounts, seed \in 0..1 :
    LET r == start_game(Ctr, now, seed, initiator, opponent)
        game == r.ctr.games[next_game_id]
        mine == available_players[initiator]
        theirs == available_players[opponent]
    IN r.res = "ok" =>
         /\ DOMAIN r.ctr.available_players
              = DOMAIN available_players \ {initiator, opponent}
         /\ \A p \in DOMAIN r.ctr.available_players :
              r.ctr.available_players[p] = available_players[p]
         /\ next_game_id \notin DOMAIN games
         /\ DOMAIN r.ctr.games = DOMAIN games \cup {next_game_id}
         /\ \A gid \in DOMAIN games : r.ctr.games[gid] = games[gid]
         /\ r.ctr.next_game_id = next_game_id + 1
         /\ game.game_state = "Active"
         /\ game.reward.token_id = mine.token_id
         /\ game.reward.token_id = theirs.token_id
         /\ game.reward.balance = 2 * mine.deposit
         /\ game.reward.balance = 2 * theirs.deposit
         /\ game.board.tiles = EmptyTiles
         /\ game.board.winner = "None"
         /\ game.total_turns = 0
         /\ game.last_turn_timestamp = 0
         /\ \A p \in Accounts :
              StatsOf(r.ctr, p).games_played
                = StatsOf(Ctr, p).games_played
                    + (IF p \in {initiator, opponent} THEN 1 ELSE 0)
         /\ r.ctr.out = <<>>

\* a game was just started with the whitelisted token, while a third
\* account keeps waiting
C19_Witness ==
  /\ last.op = "start_game"
  /\ last.gid \in DOMAIN games
  /\ games[last.gid].reward
       = [token_id |-> CHEDDAR, balance |-> 2 * MIN_DEPOSIT_NEAR]
  /\ games[last.gid].game_state = "Active"
  /\ games[last.gid].total_turns = 0
  /\ DOMAIN available_players = {"a3"}
  /\ \A p \in Players : StatsOf(Ctr, p).games_played = 1

\* the account that moves first in the game a successful start_game creates
FirstMover(seed, initiator, opponent) ==
  current_player_account_id(
    start_game(Ctr, now, seed, initiator, opponent).ctr.games[next_game_id])

\* C20: the game a successful start_game creates holds the initiator and the
\* opponent, two accounts with two pieces, in its two slots, and slot 0 moves
\* first with the board's current piece; with one value of the seed the
\* opponent moves first and with the other the initiator; and the two slots
\* of every game there is hold two accounts.
C20_SlotsAndFirstMover ==
  /\ \A initiator \in Accounts, opponent \in Accounts, seed \in 0..1 :
       LET r == start_game(Ctr, now, seed, initiator, opponent)
           game == r.ctr.games[next_game_id]
       IN r.res = "ok" =>
            /\ {game.players[1].account_id, game.players[2].account_id}
                 = {initiator, opponent}
            /\ initiator # opponent
            /\ game.players[1].account_id # game.players[2].account_id
            /\ game.players[1].piece # game.players[2].piece
            /\ current_player_account_id(game) = game.players[1].account_id
            /\ game.current_piece = game.players[1].piece
            /\ {FirstMover(s, initiator, opponent) : s \in 0..1}
                 = {initiator, opponent}
  /\ \A gid \in DOMAIN games :
       /\ games[gid].players[1].account_id # games[gid].players[2].account_id
       /\ games[gid].players[1].piece # games[gid].players[2].piece

\* a game was just started in which the opponent, not the caller, moves first
C20_Witness ==
  /\ last.op = "start_game"
  /\ last.gid \in DOMAIN games
  /\ contains_player_account_id(games[last.gid], last.caller)
  /\ current_player_account_id(games[last.gid]) # last.caller

\* a game was just started in which the caller moves first
C20_CallerFirst ==
  /\ last.op = "start_game"
  /\ last.gid \in DOMAIN games
  /\ current_player_account_id(games[last.gid]) = last.caller

\* what a registration may be called with: a deposit below the least one as
\* well, a token that is not whitelisted as well, a referrer or none
AnyDeposit == MatchDeposits \cup {MIN_DEPOSIT_NEAR - 1}
AnyToken == {CHEDDAR, "other"}
AnyReferrer == {NoAcc, "a3"}

\* the waiting list as the checkpoint at the start of a registration leaves it
AfterCheckpoint == internal_ping_expired_players(Ctr, now).available_players

\* the record a registration must leave
Registration(r, account_id, token_id, deposit, opponent_id, referrer_id) ==
  /\ account_id \in DOMAIN r.ctr.available_players
  /\ r.ctr.available_players[account_id]
       = [token_id |-> token_id, deposit |-> deposit,
          opponent_id |-> opponent_id, referrer_id |-> referrer_id,
          created_at |-> now]

\* C21 as stated: a registration fails whenever the account has a record,
\* the amount is below the token's least deposit, or the token is not
\* whitelisted.
C21_RegistrationAsStated ==
  \A a \in Accounts, d \in AnyDeposit, o \in MatchOpponents,
     ref \in AnyReferrer, t \in AnyToken :
    /\ (a \in DOMAIN available_players \/ d < MIN_DEPOSIT_NEAR)
         => make_available(Ctr, now, a, d, o, ref).res # "ok"
    /\ \/ a \in DOMAIN available_players
       \/ t \notin DOMAIN whitelisted_tokens
       \/ d < whitelisted_tokens[t]
         => ft_on_transfer(Ctr, now, t, a, d, o, ref).res # "ok"

\* C21: a registration (make_available, or a token deposit) fails when the
\* account has a record that the checkpoint at the start of the call leaves
\* waiting, when the amount is below the token's least deposit, or when the
\* token is not whitelisted; one that succeeds leaves the account's record
\* with the token, deposit, opponent and referrer given, created now.
C21_Registration ==
  \A a \in Accounts, d \in AnyDeposit :
    LET waits == a \in DOMAIN AfterCheckpoint
    IN \A o \in MatchOpponents, ref \in AnyReferrer :
         /\ LET near == make_available(Ctr, now, a, d, o, ref)
            IN IF waits \/ d < MIN_DEPOSIT_NEAR THEN near.res # "ok"
               ELSE near.res = "ok"
                      => Registration(near, a, NEAR, d, o, ref)
         /\ \A t \in AnyToken :
              LET ft == ft_on_transfer(Ctr, now, t, a, d, o, ref)
              IN IF \/ waits
                    \/ t \notin DOMAIN whitelisted_tokens
                    \/ d < whitelisted_tokens[t]
                 THEN ft.res # "ok"
                 ELSE ft.res = "ok" => Registration(ft, a, t, d, o, ref)

\* a token deposit has just registered its sender, who waits for a1, in a
\* block after the first; another record is waiting
C21_Witness ==
  /\ last.op = "ft_on_transfer"
  /\ now > 1
  /\ last.caller \in DOMAIN available_players
  /\ available_players[last.caller]
       = [token_id |-> CHEDDAR, deposit |-> MIN_DEPOSIT_NEAR,
          opponent_id |-> "a1", referrer_id |-> NoAcc, created_at |-> now]
  /\ \E p \in DOMAIN available_players : p # last.caller

Staked(waiting, acc, token_id) ==
  IF acc \in DOMAIN waiting /\ waiting[acc].token_id = token_id
  THEN waiting[acc].deposit
  ELSE 0

C23_CreditedWhenNotWaiting ==
  [][(/\ last'.op = "transfer_failed"
      /\ Len(refunds') < Len(refunds)
      /\ last'.caller \notin DOMAIN available_players) =>
       LET refund == last'.transfers[1]
       IN Staked(available_players', refund.receiver, refund.token_id)
            = refund.amount]_vars

\* the games whose payout is requested by the step
PaidInStep ==
  {payouts'[i].game_id : i \in (Len(payouts) + 1)..Len(payouts')}

Aborted(r) == r.res # "ok" => r.ctr = Ctr

\* C25: whatever the method and its arguments, a call that is rejected
\* leaves the queue, the games, the stats, the archive and next_game_id as
\* they were before the call and requests no transfer: what the checkpoint
\* at the start of that call evicted or terminated is as it was.
C25_RejectedCallsChangeNothing ==
  \A a \in Accounts :
    /\ \A d \in AnyDeposit, o \in MatchOpponents :
         /\ Aborted(make_available(Ctr, now, a, d, o, NoAcc))
         /\ \A t \in AnyToken :
              Aborted(ft_on_transfer(Ctr, now, t, a, d, o, NoAcc))
    /\ Aborted(make_unavailable(Ctr, a))
    /\ \A b \in Accounts, seed \in 0..1 :
         Aborted(start_game(Ctr, now, seed, a, b))
    /\ \A gid \in GameIds :
         /\ Aborted(give_up(Ctr, a, gid))
         /\ Aborted(stop_game(Ctr, now, a, gid))
         /\ \A row \in 0..BOARD_SIZE, col \in 0..BOARD_SIZE :
              Aborted(make_move(Ctr, now, a, gid, row, col))

\* a stale record and a timed-out game are there; a registration below the
\* least deposit is rejected after its checkpoint evicted the record, and a
\* move in the timed-out game after its checkpoint terminated the game
C25_Witness ==
  /\ internal_ping_expired_players(Ctr, now) # Ctr
  /\ make_available(Ctr, now, "a3", MIN_DEPOSIT_NEAR - 1, NoAcc, NoAcc).res
       = "DepositTooSmall"
  /\ internal_ping_expired_games(Ctr, now) # Ctr
  /\ 0 \in DOMAIN games
  /\ make_move(Ctr, now, current_player_account_id(games[0]), 0, 0, 0).res
       = "GameNotFound"

\* an account's cumulative reward in a token
RewardOf(c, acc, token_id) ==
  IF token_id \in DOMAIN StatsOf(c, acc).total_reward
  THEN StatsOf(c, acc).total_reward[token_id]
  ELSE 0

\* one registration, with NEAR attached or by a deposit of the token
Register(c, token_id, acc, deposit, referrer_id) ==
  IF token_id = NEAR
  THEN make_available(c, now, acc, deposit, NoAcc, referrer_id)
  ELSE ft_on_transfer(c, now, token_id, acc, deposit, NoAcc, referrer_id)

\* the scenario: first and second register with deposit each, first starts
\* a game with second, resigner gives up
Resignation(first, second, token_id, deposit, referrer_id, seed, resigner) ==
  LET r1 == Register(Ctr, token_id, first, deposit, referrer_id)
      r2 == Register(r1.ctr, token_id, second, deposit, NoAcc)
      r3 == start_game(r2.ctr, now, seed, first, second)
      r4 == give_up(r3.ctr, resigner, r2.ctr.next_game_id)
  IN [ok |-> r1.res = "ok" /\ r2.res = "ok" /\ r3.res = "ok"
             /\ r4.res = "ok",
      ctr |-> r4.ctr]

\* C26: after two accounts register with deposit d each, are matched, and
\* one of them resigns, the other's victories_num is one more and its
\* cumulative reward in the token is 2d less the fee on 2d more; the
\* resigner's victories_num and cumulative reward are as before; both have
\* played one game more.
C26_ResignationScenario ==
  \A first \in Players, second \in Players, token_id \in {NEAR, CHEDDAR},
     d \in MIN_DEPOSIT_NEAR..(MAX_BALANCE \div 2),
     referrer_id \in AnyReferrer, seed \in 0..1, resigner \in Players :
    LET s == Resignation(first, second, token_id, d, referrer_id, seed,
                         resigner)
        winner == IF resigner = first THEN second ELSE first
    IN s.ok =>
         /\ winner # resigner
         /\ StatsOf(s.ctr, winner).victories_num
              = StatsOf(Ctr, winner).victories_num + 1
         /\ RewardOf(s.ctr, winner, token_id)
              = RewardOf(Ctr, winner, token_id)
                  + 2 * d - (2 * d * service_fee_percentage) \div BASIS_P
         /\ StatsOf(s.ctr, resigner).victories_num
              = StatsOf(Ctr, resigner).victories_num
         /\ StatsOf(s.ctr, resigner).total_reward
              = StatsOf(Ctr, resigner).total_reward
         /\ \A p \in {first, second} :
              StatsOf(s.ctr, p).games_played
                = StatsOf(Ctr, p).games_played + 1
         /\ StatsOf(s.ctr, resigner).penalties_num
              = StatsOf(Ctr, resigner).penalties_num

\* the two accounts registered, were matched, one gave up before any move:
\* the other has one victory and the reward, the resigner none, both have
\* played one game
C26_Witness ==
  /\ last.op = "give_up"
  /\ Finished(last.gid)
  /\ last.gid \notin DOMAIN moved_by
  /\ \E winner \in Players \ {last.caller} :
       /\ StatsOf(Ctr, winner).victories_num = 1
       /\ RewardOf(Ctr, winner, NEAR)
            = 2 * MIN_DEPOSIT_NEAR
                - (2 * MIN_DEPOSIT_NEAR * service_fee_percentage) \div BASIS_P
       /\ StatsOf(Ctr, winner).games_played = 1
  /\ StatsOf(Ctr, last.caller).victories_num = 0
  /\ StatsOf(Ctr, last.caller).total_reward = EmptyMap
  /\ StatsOf(Ctr, last.caller).games_played = 1
  /\ Resignation("a1", "a2", CHEDDAR, MIN_DEPOSIT_NEAR + 1, "a3", 0, "a2").ok

\* the largest fee with fee * BASIS_P <= balance * service_fee_percentage:
\* the quotient of the product, rounded down
FloorFee(balance) ==
  CHOOSE fee \in 0..balance :
    /\ fee * BASIS_P <= balance * service_fee_percentage
    /\ balance * service_fee_percentage < (fee + 1) * BASIS_P

\* settlement entry e gives its winner the balance less the fee, and the
\* fee to the referrers and the service
FeeDeducted(e) ==
  /\ e.to_players = e.balance - FloorFee(e.balance)
  /\ e.to_referrers + e.fee_kept = FloorFee(e.balance)

TieMove ==
  /\ MoveAccepted
  /\ last'.gid \in DOMAIN games
  /\ LET game == games[last'.gid]
     IN /\ last'.caller = current_player_account_id(game)
        /\ Occupied(game.board) = MAX_NUM_TURNS - 1
        /\ ~OnRun([game.board.tiles EXCEPT ![<<last'.row, last'.col>>] =
                                            game.current_piece],
                  game.current_piece, last'.row, last'.col)

\* C28: when a game ends in a tie, each of its two players is sent half of
\* the balance less the fee (rounded down), the cumulative reward of both
\* in the token grows by that same amount, the victories of neither change,
\* and the game is archived as Tie with that amount.
C28_TieSettlement ==
  [][TieMove =>
       LET gid == last'.gid
           game == games[gid]
           token_id == game.reward.token_id
           balance == game.reward.balance
           half == (balance - (balance * service_fee_percentage) \div BASIS_P)
                     \div 2
       IN /\ Len(payouts') = Len(payouts) + 1
          /\ LastOf(payouts').game_id = gid
          /\ LastOf(payouts').winner = NoAcc
          /\ \A k \in 1..2 :
               LET p == game.players[k].account_id
               IN /\ Cardinality({i \in DOMAIN last'.transfers :
                                    last'.transfers[i].receiver = p}) = 1
                  /\ \E i \in DOMAIN last'.transfers :
                       last'.transfers[i]
                         = [token_id |-> token_id, receiver |-> p,
                            amount |-> half]
                  /\ RewardOf(Ctr', p, token_id)
                       = RewardOf(Ctr, p, token_id) + half
                  /\ StatsOf(Ctr', p).victories_num
                       = StatsOf(Ctr, p).victories_num
                  /\ StatsOf(Ctr', p).penalties_num
                       = StatsOf(Ctr, p).penalties_num
          /\ gid \notin DOMAIN games'
          /\ LastOf(stored_games').game_id = gid
          /\ LastOf(stored_games').game_result = "Tie"
          /\ LastOf(stored_games').reward_or_tie_refund.balance = half]_vars

\* the last move filled the board with no run: the game is archived as Tie,
\* both players were sent 4 of the balance of 10 and have that reward and
\* no victory
C28_Witness ==
  /\ last.op = "make_move"
  /\ stored_games # <<>>
  /\ LastOf(stored_games).game_result = "Tie"
  /\ LastOf(stored_games).game_id = last.gid
  /\ Len(last.transfers) = 2
  /\ \A p \in Players :
       /\ RewardOf(Ctr, p, NEAR) = 4
       /\ StatsOf(Ctr, p).victories_num = 0
       /\ \E i \in DOMAIN last.transfers :
            last.transfers[i].receiver = p /\ last.transfers[i].amount = 4

\* the ids of the games in the archive, oldest first
Archived == [i \in DOMAIN stored_games |-> stored_games[i].game_id]

\* how many games the archive must hold after the insertions of stored_log
Kept == IF Len(stored_log) < max_stored_games THEN Len(stored_log)
        ELSE max_stored_games

MapGrows(m, n) ==
  \A k \in DOMAIN m : k \in DOMAIN n /\ m[k] <= n[k]

\* every stats record of before is in after, with no counter, cumulative
\* reward or referral earning lower
StatsGrow(before, after) ==
  \A acc \in DOMAIN before :
    /\ acc \in DOMAIN after
    /\ before[acc].games_played <= after[acc].games_played
    /\ before[acc].victories_num <= after[acc].victories_num
    /\ before[acc].penalties_num <= after[acc].penalties_num
    /\ MapGrows(before[acc].total_reward, after[acc].total_reward)
    /\ MapGrows(before[acc].total_affiliate_reward,
                after[acc].total_affiliate_reward)

\* the updates of a stats record
UpdateStatsAction ==
  {"AddPlayedGame", "AddPenaltyGame", "AddWonGame", "AddTotalReward",
   "AddAffiliateReward"}

\* C30: in no step does a stats record disappear or does games_played,
\* victories_num, penalties_num, a cumulative reward or a referral earning
\* of any account decrease; and no update of a stats record, of any kind and
\* amount, lowers any of them.
C30_StatsMonotone ==
  /\ [][StatsGrow(stats, stats')]_vars
  /\ [](\A acc \in Accounts, token_id \in {NEAR, CHEDDAR},
           action \in UpdateStatsAction, amount \in 0..2 :
          StatsGrow(stats,
                    internal_update_stats(Ctr, token_id, acc, action,
                                          amount).stats))

\* a game was played and stopped: its loser has a penalty and a game
\* played, its winner a victory, a game played and a reward
C30_Witness ==
  /\ last.op = "stop_game"
  /\ \E looser \in Players \ {last.caller} :
       /\ StatsOf(Ctr, looser).penalties_num = 1
       /\ StatsOf(Ctr, looser).games_played = 1
  /\ StatsOf(Ctr, last.caller).victories_num = 1
  /\ StatsOf(Ctr, last.caller).games_played = 1
  /\ RewardOf(Ctr, last.caller, NEAR) > 0

\* the game a move at (row, col) at time ts that goes on must leave
MovedOn(game, ts, row, col) ==
  [game EXCEPT !.board.tiles[<<row, col>>] = game.current_piece,
               !.current_piece = other(game.current_piece),
               !.current_player_index = 1 - game.current_player_index,
               !.total_turns = game.total_turns + 1,
               !.last_turn_timestamp = ts,
               !.current_duration = ts - game.initiated_at]

\* a move of the current mover in game at ts is within both bounds, each
\* taken inclusive
WithinBounds(game, ts) ==
  /\ IF game.last_turn_timestamp = 0
     THEN ts - game.initiated_at <= max_turn_duration
     ELSE ts - game.last_turn_timestamp <= max_turn_duration
  /\ ts - game.initiated_at <= max_game_duration

\* C31: a move of the current mover on an empty cell that makes no winner
\* and no full board, made no later than max_turn_duration after the
\* previous turn (after initiation for the first move) and no later than
\* max_game_duration after initiation, both bounds inclusive, is accepted and
\* leaves the game Active with the piece placed, piece and mover flipped,
\* total_turns one more, last_turn_timestamp now and current_duration
\* now - initiated_at; nothing is settled, archived or transferred.  The
\* timing of lines 342-380 alone, given such a move whose previous turn was
\* max_turn_duration ago and whose current_duration is exactly
\* max_game_duration, keeps the game as well.
C31_MoveInTime ==
  \A gid \in DOMAIN games, row \in Idx, col \in Idx :
    LET game == games[gid]
        mover == current_player_account_id(game)
        r == make_move(Ctr, now, mover, gid, row, col)
    IN (/\ game.board.tiles[<<row, col>>] = Empty
        /\ PlacePiece(game, row, col).board.winner = "None"
        /\ WithinBounds(game, now)) =>
         /\ r.res = "ok"
         /\ gid \in DOMAIN r.ctr.games
         /\ r.ctr.games[gid] = MovedOn(game, now, row, col)
         /\ r.ctr.games[gid].game_state = "Active"
         /\ r.ctr.games[gid].total_turns = game.total_turns + 1
         /\ current_player_account_id(r.ctr.games[gid]) # mover
         /\ r.ctr.payouts = payouts
         /\ r.ctr.stored_games = stored_games
         /\ r.ctr.stats = stats
         /\ r.ctr.out = <<>>
         /\ LET ts == game.initiated_at + max_game_duration
                aged == [PlacePiece(game, row, col) EXCEPT
                           !.last_turn_timestamp = ts - max_turn_duration]
                kept == CountTurn(Ctr, ts, gid, aged, mover).games
            IN /\ gid \in DOMAIN kept
               /\ kept[gid]
                    = [aged EXCEPT !.total_turns = game.total_turns + 1,
                                   !.last_turn_timestamp = ts,
                                   !.current_duration = max_game_duration]

\* two moves were made, each exactly max_turn_duration after the turn
\* before (the first after initiation): the game goes on, timed at now
C31_Witness ==
  /\ last.op = "make_move"
  /\ last.gid \in DOMAIN games
  /\ LET game == games[last.gid]
     IN /\ game.game_state = "Active"
        /\ game.total_turns = 2
        /\ game.last_turn_timestamp = now
        /\ game.current_duration = 2 * max_turn_duration
        /\ now = game.initiated_at + 2 * max_turn_duration
        /\ game.board.tiles[<<last.row, last.col>>] = "X"

\* the call r, a make_move of mover, was accepted as a normal move: the
\* mover was not made to forfeit
NormalMove(r, mover) ==
  /\ r.res = "ok"
  /\ StatsOf(r.ctr, mover).penalties_num = StatsOf(Ctr, mover).penalties_num

\* C32: stop_game and make_move agree on when a game has timed out: at no
\* timestamp is the non-mover's stop_game of an Active game accepted while a
\* make_move of the current mover at that timestamp would be accepted as a
\* normal move that forfeits nothing.
C32_TimeoutAgreement ==
  \A gid \in DOMAIN games, row \in Idx, col \in Idx :
    LET game == games[gid]
        mover == current_player_account_id(game)
        waiter == next_player_account_id(game)
    IN ~(/\ stop_game(Ctr, now, waiter, gid).res = "ok"
         /\ NormalMove(make_move(Ctr, now, mover, gid, row, col), mover))

\* the sum of the values of a function with a finite domain
RECURSIVE SumOf(_)
SumOf(f) ==
  IF DOMAIN f = {} THEN 0
  ELSE LET k == CHOOSE x \in DOMAIN f : TRUE
       IN f[k] + SumOf(Del(f, k))

\* the stakes of token_id held in the availability records of c
StakesHeld(c, token_id) ==
  SumOf([acc \in DOMAIN c.available_players |->
           Staked(c.available_players, acc, token_id)])

\* the balances of token_id held by the games of c
GameBalances(c, token_id) ==
  SumOf([gid \in DOMAIN c.games |->
           IF c.games[gid].reward.token_id = token_id
           THEN c.games[gid].reward.balance ELSE 0])

\* the amount of token_id in a sequence of transfer requests
Emitted(transfers, token_id) ==
  SumOf([i \in DOMAIN transfers |->
           IF transfers[i].token_id = token_id THEN transfers[i].amount
           ELSE 0])

\* the settlements the step made
SettledInStep == (Len(payouts) + 1)..Len(payouts')

\* the token the game of a settlement of the step was played for
TokenSettled(i) == games[payouts'[i].game_id].reward.token_id

\* the fees of token_id the service retains from the settlements of the step
FeesRetainedInStep(token_id) ==
  SumOf([i \in SettledInStep |->
           IF TokenSettled(i) = token_id THEN payouts'[i].fee_kept ELSE 0])

\* what the settlements of the step neither sent nor retained as a fee
LostInStep(token_id) ==
  SumOf([i \in SettledInStep |->
           IF TokenSettled(i) = token_id
           THEN payouts'[i].balance - payouts'[i].to_players
                  - payouts'[i].to_referrers - payouts'[i].fee_kept
           ELSE 0])

\* the amount of token_id the call of the step deposited: the stake of an
\* accepted registration
DepositedInStep(token_id) ==
  IF last'.op \in {"make_available", "ft_on_transfer"}
  THEN Staked(available_players', last'.caller, token_id)
  ELSE 0

\* C33: the value deposited through registrations equals the stakes held in
\* availability records, plus the balances of the Active games, plus all
\* amounts emitted as transfer requests, plus the fees the service retained.
\* All are zero at construction, so the equality at every state is: what a
\* step deposits equals the growth of the stakes and of the game balances
\* plus what the step emits and retains.
C33_ValueConserved ==
  [][\A token_id \in {NEAR, CHEDDAR} :
       DepositedInStep(token_id)
         = (StakesHeld(Ctr', token_id) - StakesHeld(Ctr, token_id))
             + (GameBalances(Ctr', token_id) - GameBalances(Ctr, token_id))
             + Emitted(last'.transfers, token_id)
             + FeesRetainedInStep(token_id)]_vars

\* the same account with what a settlement lost to rounding added: nothing
\* else leaves the books
C33_ConservedUpToRounding ==
  [][\A token_id \in {NEAR, CHEDDAR} :
       DepositedInStep(token_id)
         = (StakesHeld(Ctr', token_id) - StakesHeld(Ctr, token_id))
             + (GameBalances(Ctr', token_id) - GameBalances(Ctr, token_id))
             + Emitted(last'.transfers, token_id)
             + FeesRetainedInStep(token_id)
             + LostInStep(token_id)]_vars

\* every account that calls: the players of both games and one of neither
Callers == Accounts \cup Sitters

\* C34: an account that is not one of a game's two players cannot change
\* that game by make_move, give_up or stop_game on its id: at any time each
\* such call is rejected and leaves the contract (the game, the stats of
\* its players, the archive) as it was.
C34_OutsidersRejected ==
  \A gid \in DOMAIN games, a \in Callers :
    ~contains_player_account_id(games[gid], a) =>
      /\ give_up(Ctr, a, gid).res # "ok"
      /\ give_up(Ctr, a, gid).ctr = Ctr
      /\ stop_game(Ctr, now, a, gid).res # "ok"
      /\ stop_game(Ctr, now, a, gid).ctr = Ctr
      /\ \A row \in 0..BOARD_SIZE, col \in 0..BOARD_SIZE :
           LET r == make_move(Ctr, now, a, gid, row, col)
           IN /\ r.res # "ok"
              /\ r.ctr.games = games
              /\ r.ctr.stats = stats
              /\ r.ctr.stored_games = stored_games
              /\ r.ctr = Ctr

\* game 0 has had a move and is past its turn bound: a player of game 1 and
\* an account of no game are refused on game 0, by stop_game though the game
\* may be stopped, by give_up, and by make_move
C34_Witness ==
  /\ 0 \in DOMAIN games
  /\ games[0].total_turns > 0
  /\ MayStop(games[0], now)
  /\ GameExpired(games[0], now)
  /\ stop_game(Ctr, now, next_player_account_id(games[0]), 0).res = "ok"
  /\ \A a \in {"a3", "b1"} :
       /\ stop_game(Ctr, now, a, 0).res = "NotInGame"
       /\ give_up(Ctr, a, 0).res = "NotInGame"
       /\ make_move(Ctr, now, a, 0, 2, 2).res # "ok"

\* the number of cells of a board that hold piece
Held(board, piece) == Cardinality({c \in Cells : board.tiles[c] = piece})

\* C35: for every Active game in the games map, total_turns is the number of
\* occupied cells, the numbers of cells the two pieces hold differ by at
\* most one, and current_piece is the piece of the player in the
\* current-mover slot.
C35_BoardAndTurns ==
  \A gid \in DOMAIN games :
    LET game == games[gid]
        diff == Held(game.board, "O") - Held(game.board, "X")
    IN game.game_state = "Active" =>
         /\ game.total_turns = Occupied(game.board)
         /\ Held(game.board, "O") + Held(game.board, "X")
              = Occupied(game.board)
         /\ diff \in {-1, 0, 1}
         /\ game.current_piece
              = game.players[game.current_player_index + 1].piece
         /\ game.board.winner = "None"

\* seven moves were made: one piece holds four cells, the other three, and
\* the player to move holds the piece with three
C35_Witness ==
  /\ last.op = "make_move"
  /\ 0 \in DOMAIN games
  /\ games[0].game_state = "Active"
  /\ games[0].total_turns = 7
  /\ Held(games[0].board, "O") = 4
  /\ Held(games[0].board, "X") = 3
  /\ games[0].current_piece = "X"
  /\ current_player_account_id(games[0]) # last.caller

\* what Contract::new makes of a whole-game bound g: the per-turn bound
TurnBoundOf(g) == g \div MAX_NUM_TURNS

\* C36: with max_turn_duration the integer quotient of max_game_duration by
\* MAX_NUM_TURNS, MAX_NUM_TURNS turns of at most max_turn_duration each fit
\* in max_game_duration, whatever the remainder; every game in the map has
\* fewer than MAX_NUM_TURNS turns and a current_duration of at most
\* max_turn_duration per turn made, so at most max_game_duration; and the
\* timing of a move that goes on (lib.rs:342-380) forfeits the mover only
\* when the time since the previous turn (since initiation for the first
\* move) is above max_turn_duration, never for the whole-game duration alone.
C36_TurnBoundImpliesGameBound ==
  /\ \A g \in 0..(3 * MAX_NUM_TURNS) : MAX_NUM_TURNS * TurnBoundOf(g) <= g
  /\ \A gid \in DOMAIN games :
       LET game == games[gid]
       IN /\ game.total_turns < MAX_NUM_TURNS
          /\ game.current_duration <= game.total_turns * max_turn_duration
          /\ game.current_duration <= max_game_duration
          /\ game.total_turns > 0 =>
               game.last_turn_timestamp
                 = game.initiated_at + game.current_duration
          /\ \A row \in Idx, col \in Idx :
               LET moved == PlacePiece(game, row, col)
                   mover == current_player_account_id(game)
                   timed == CountTurn(Ctr, now, gid, moved, mover)
               IN (/\ game.board.tiles[<<row, col>>] = Empty
                   /\ moved.board.winner = "None"
                   /\ gid \notin DOMAIN timed.games)
                    => SinceLastTurn(game, now) > max_turn_duration

\* eight moves were made, each max_turn_duration after the turn before; the
\* clock is past the whole-game bound and a ninth move that came now would
\* be late for its turn as well
C36_Witness ==
  /\ 0 \in DOMAIN games
  /\ games[0].total_turns = MAX_NUM_TURNS - 1
  /\ games[0].current_duration = (MAX_NUM_TURNS - 1) * max_turn_duration
  /\ now - games[0].initiated_at > max_game_duration
  /\ SinceLastTurn(games[0], now) > max_turn_duration

\* the ids of the games that have left the games map, in the order they left
Ended == {stored_log[i] : i \in DOMAIN stored_log}

\* C37: game ids are unique and strictly increasing: a start_game that
\* succeeds puts its game under the id next_game_id had, an id no game has
\* or has had, and advances next_game_id by exactly 1; one that fails leaves
\* next_game_id as it was; every id in the games map or in the archive is
\* below next_game_id; no id is archived twice or is in the games map after
\* its game ended; and next_game_id changes in no other way.
C37_GameIds ==
  /\ [](/\ \A gid \in DOMAIN games : gid < next_game_id
        /\ \A i \in DOMAIN stored_games :
             stored_games[i].game_id < next_game_id
        /\ \A gid \in Ended : gid < next_game_id /\ gid \notin DOMAIN games
        /\ Cardinality(Ended) = Len(stored_log)
        /\ Cardinality(DOMAIN games) + Len(stored_log) = next_game_id
        /\ \A a \in SeriesAccounts, b \in SeriesAccounts, seed \in 0..1 :
             LET r == start_game(Ctr, now, seed, a, b)
             IN IF r.res = "ok"
                THEN /\ r.ctr.next_game_id = next_game_id + 1
                     /\ DOMAIN r.ctr.games = DOMAIN games \cup {next_game_id}
                     /\ next_game_id \notin DOMAIN games
                     /\ next_game_id \notin Ended
                     /\ contains_player_account_id(
                          r.ctr.games[next_game_id], a)
                ELSE r.ctr.next_game_id = next_game_id)
  /\ [][/\ next_game_id' \in {next_game_id, next_game_id + 1}
        /\ next_game_id' # next_game_id =>
             /\ last'.op = "start_game"
             /\ last'.gid = next_game_id
             /\ DOMAIN games' = DOMAIN games \cup {last'.gid}
        /\ last'.op = "start_game" => next_game_id' = next_game_id + 1
        /\ \A gid \in Ended : gid \in Ended' /\ gid \notin DOMAIN games'
       ]_vars

\* the third game was started after the first two had ended: it has id 2,
\* the ended games are 0 and 1 in some order, and the archive holds the last
C37_Witness ==
  /\ last.op = "start_game"
  /\ last.gid = 2
  /\ next_game_id = 3
  /\ DOMAIN games = {2}
  /\ Ended = {0, 1}
  /\ stored_games # <<>>
  /\ LastOf(stored_games).game_id \in {0, 1}

\* the accounts whose penalties_num the step changes
PenalizedInStep ==
  {p \in Callers :
     StatsOf(Ctr', p).penalties_num # StatsOf(Ctr, p).penalties_num}

\* C38: give_up adds no penalty: whoever of the two players resigns, at any
\* time since the last turn or since initiation, penalties_num of every
\* account is after the call what it was before.  A penalty is added only
\* by stop_game, to the current mover of the stopped game, and by a timeout
\* termination, to the current mover of a game past a bound.
C38_GiveUpAddsNoPenalty ==
  /\ [](\A gid \in DOMAIN games, a \in Callers :
          LET r == give_up(Ctr, a, gid)
          IN /\ contains_player_account_id(games[gid], a) => r.res = "ok"
             /\ \A p \in Callers :
                  StatsOf(r.ctr, p).penalties_num
                    = StatsOf(Ctr, p).penalties_num)
  /\ [][/\ last'.op = "give_up" => PenalizedInStep = {}
        /\ \A p \in PenalizedInStep :
             /\ StatsOf(Ctr', p).penalties_num
                  = StatsOf(Ctr, p).penalties_num + 1
             /\ \E gid \in DOMAIN games :
                  /\ p = current_player_account_id(games[gid])
                  /\ gid \notin DOMAIN games'
                  /\ \/ last'.op = "stop_game" /\ last'.gid = gid
                     \/ last'.op = "make_move" /\ GameExpired(games[gid], now)
       ]_vars

\* a player of a game in which no move was made resigned it when it was
\* past its turn bound: neither player carries a penalty, the other player
\* has the victory
C38_Witness ==
  /\ last.op = "give_up"
  /\ Finished(last.gid)
  /\ last.gid \notin DOMAIN moved_by
  /\ now > 1 + max_turn_duration
  /\ LastOf(stored_games).game_id = last.gid
  /\ LET view == LastOf(stored_games)
     IN /\ last.caller \in {view.player1, view.player2}
        /\ StatsOf(Ctr, view.player1).penalties_num = 0
        /\ StatsOf(Ctr, view.player2).penalties_num = 0
        /\ view.game_result # last.caller
        /\ StatsOf(Ctr, view.game_result).victories_num = 1

\* the transfers of out that go to acc
SentTo(out, acc) == {i \in DOMAIN out : out[i].receiver = acc}

\* C39: make_available sweeps the waiting list before it looks for the
\* caller's record: a caller whose own record is stale is registered by the
\* call, which requests one refund, of the old stake in its token, to the
\* caller and leaves the caller's record with the new deposit, created now;
\* a caller whose record is not stale is rejected and nothing changes.
C39_StaleCallerReRegisters ==
  \A a \in DOMAIN available_players, d \in MatchDeposits,
     o \in MatchOpponents :
    LET old == available_players[a]
        r == make_available(Ctr, now, a, d, o, NoAcc)
    IN IF PlayerExpired(old, now)
       THEN /\ r.res = "ok"
            /\ a \in DOMAIN r.ctr.available_players
            /\ r.ctr.available_players[a]
                 = [token_id |-> NEAR, deposit |-> d, opponent_id |-> o,
                    referrer_id |-> NoAcc, created_at |-> now]
            /\ Cardinality(SentTo(r.ctr.out, a)) = 1
            /\ \A i \in SentTo(r.ctr.out, a) :
                 r.ctr.out[i] = [token_id |-> old.token_id, receiver |-> a,
                                 amount |-> old.deposit]
       ELSE /\ r.res = "AlreadyWaiting"
            /\ r.ctr = Ctr

\* an account that waited with a stake of the token registered again with
\* NEAR and another deposit when its record was stale: the call refunded the
\* old stake and the record is the new one; the other account waits, and
\* its own registration now is rejected
C39_Witness ==
  /\ last.op = "make_available"
  /\ last.caller \in DOMAIN available_players
  /\ available_players[last.caller].token_id = NEAR
  /\ available_players[last.caller].deposit = MIN_DEPOSIT_NEAR
  /\ available_players[last.caller].created_at = now
  /\ \E i \in DOMAIN last.transfers :
       last.transfers[i] = [token_id |-> CHEDDAR, receiver |-> last.caller,
                            amount |-> (MAX_BALANCE + 1) \div 2]
  /\ \E p \in DOMAIN available_players :
       /\ p # last.caller
       /\ make_available(Ctr, now, p, MIN_DEPOSIT_NEAR, NoAcc, NoAcc).res
            = "AlreadyWaiting"

====
